---- MODULE Spec2Model ----
(***************************************************************************)
(* A model of the ATS resume analyzer backend (src/backend): the text      *)
(* functions of parser.py and analyzer.py, the score aggregation of        *)
(* scorer.py, the recommendation engine of feedback.py and the request     *)
(* handler analyze_resume of app.py.                                       *)
(*                                                                         *)
(* A text is a sequence of characters; a character is a one-character      *)
(* string.  Two characters outside ASCII are written by name: "box" is any *)
(* of the box-drawing characters of analyzer.py:250 and "bullet" is the    *)
(* bullet of analyzer.py:91.  Scores that the code keeps as floats rounded *)
(* to two decimals are kept here as integers in hundredths.                *)
(***************************************************************************)
EXTENDS Integers, Sequences, FiniteSets, TLC

VARIABLES
  pc,                 \* position of the run
  input_lines,        \* the lines the resume text was put together from
  resume_text,        \* raw resume text
  jd_text,            \* None, or Some(raw job-description text)
  similarity,         \* what compute_tfidf_similarity yields for this input pair (hundredths)
  sections,           \* detect_sections(resume_text)
  resume_normalized,  \* normalize_skills(resume_text)
  section_analysis,   \* analyze_sections(sections)
  skill_analysis,     \* calculate_skill_density(...)
  verb_analysis,      \* detect_action_verbs(...)
  ats_compatibility,  \* check_ats_compatibility(...)
  ats_score,          \* calculate_ats_score(...), hundredths
  skill_overlap,      \* find_skill_overlap(...)
  jd_match_score,     \* None, or Some(calculate_jd_match(...)), hundredths
  jd_analysis,        \* None, or Some(what generate_recommendations gets of the overlap)
  recommendations,    \* generate_recommendations(...)
  response,           \* the response of the run
  previous            \* the response of an earlier run on the same input

vars == <<pc, input_lines, resume_text, jd_text, similarity, sections, resume_normalized,
          section_analysis, skill_analysis, verb_analysis, ats_compatibility,
          ats_score, skill_overlap, jd_match_score, jd_analysis, recommendations,
          response, previous>>

None == <<>>
Some(x) == <<x>>
Get(o) == o[1]

Range(s) == {s[i] : i \in 1..Len(s)}

RECURSIVE ConcatAll(_)
ConcatAll(ss) == IF ss = <<>> THEN <<>> ELSE Head(ss) \o ConcatAll(Tail(ss))

RECURSIVE SumSeq(_)
SumSeq(s) == IF s = <<>> THEN 0 ELSE Head(s) + SumSeq(Tail(s))

Max(a, b) == IF a >= b THEN a ELSE b

\* Python's round(num/den, 0) on a non-negative exact ratio: to nearest, ties to even.
RoundHalfEven(num, den) ==
  LET q == num \div den
      r == num % den
  IN  IF 2 * r < den THEN q
      ELSE IF 2 * r > den THEN q + 1
      ELSE IF q % 2 = 0 THEN q ELSE q + 1

(***************************************************************************)
(* Characters and the str / re primitives the code uses.                   *)
(***************************************************************************)
LowerLetters == <<"a","b","c","d","e","f","g","h","i","j","k","l","m",
                  "n","o","p","q","r","s","t","u","v","w","x","y","z">>
UpperLetters == <<"A","B","C","D","E","F","G","H","I","J","K","L","M",
                  "N","O","P","Q","R","S","T","U","V","W","X","Y","Z">>
Digits == {"0","1","2","3","4","5","6","7","8","9"}

LowerSet == Range(LowerLetters)
UpperSet == Range(UpperLetters)
WordCharSet == LowerSet \cup UpperSet \cup Digits \cup {"_"}
SpaceCharSet == {" ", "\n", "\t", "\r"}
LowerOf == [c \in UpperSet |-> LowerLetters[CHOOSE i \in 1..26 : UpperLetters[i] = c]]

IsLowerChar(c) == c \in LowerSet
IsUpperChar(c) == c \in UpperSet

\* \w of re: letters, digits and the underscore.
IsWordChar(c) == c \in WordCharSet

\* \s of re and the whitespace of str.split() / str.strip().
IsSpaceChar(c) == c \in SpaceCharSet

ToLowerChar(c) == IF c \in UpperSet THEN LowerOf[c] ELSE c

\* str.lower()
lower(text) == [i \in 1..Len(text) |-> ToLowerChar(text[i])]

\* str.isupper(): at least one cased character and no lower-case one.
isupper(text) ==
  /\ \E i \in 1..Len(text) : IsUpperChar(text[i])
  /\ \A i \in 1..Len(text) : ~IsLowerChar(text[i])

\* len(text.split()): the number of maximal runs of non-whitespace characters.
WordCount(text) ==
  Cardinality({i \in 1..Len(text) :
     /\ ~IsSpaceChar(text[i])
     /\ (i = 1 \/ IsSpaceChar(text[i - 1]))})

\* str.strip()
strip(text) ==
  IF \A i \in 1..Len(text) : IsSpaceChar(text[i]) THEN <<>>
  ELSE LET lo == CHOOSE i \in 1..Len(text) :
                   /\ ~IsSpaceChar(text[i])
                   /\ \A j \in 1..(i - 1) : IsSpaceChar(text[j])
           hi == CHOOSE i \in 1..Len(text) :
                   /\ ~IsSpaceChar(text[i])
                   /\ \A j \in (i + 1)..Len(text) : IsSpaceChar(text[j])
       IN  SubSeq(text, lo, hi)

\* text.split('\n'): the lines of a text, the empty ones included.
RECURSIVE SplitLinesFrom(_, _)
SplitLinesFrom(text, from) ==
  LET nls == {i \in from..Len(text) : text[i] = "\n"}
  IN  IF nls = {} THEN <<SubSeq(text, from, Len(text))>>
      ELSE LET n == CHOOSE i \in nls : \A j \in nls : i <= j
           IN  <<SubSeq(text, from, n - 1)>> \o SplitLinesFrom(text, n + 1)

SplitLines(text) == SplitLinesFrom(text, 1)

\* Whether a word character stands at index i of the text (no character
\* stands outside it).
WordAt(text, i) == i >= 1 /\ i <= Len(text) /\ IsWordChar(text[i])

\* \b of re between index p and index p + 1.
WordBoundary(text, p) == WordAt(text, p) # WordAt(text, p + 1)

\* The literal term occurs in the text from index i on.
OccursAt(term, text, i) ==
  /\ i >= 1
  /\ i + Len(term) - 1 <= Len(text)
  /\ \A k \in 1..Len(term) : text[i + k - 1] = term[k]

COMMON_SKILLS ==
  <<
    [category |-> "programming", skills |-> <<
       <<"p","y","t","h","o","n">>,  \* python
       <<"j","a","v","a">>,  \* java
       <<"j","a","v","a","s","c","r","i","p","t">>,  \* javascript
       <<"t","y","p","e","s","c","r","i","p","t">>,  \* typescript
       <<"c">>,  \* c
       <<"c","p","p">>,  \* cpp
       <<"c","s","h","a","r","p">>,  \* csharp
       <<"r","u","b","y">>,  \* ruby
       <<"p","h","p">>,  \* php
       <<"s","w","i","f","t">>,  \* swift
       <<"k","o","t","l","i","n">>,  \* kotlin
       <<"g","o">>,  \* go
       <<"r","u","s","t">>,  \* rust
       <<"s","c","a","l","a">>,  \* scala
       <<"r">>,  \* r
       <<"m","a","t","l","a","b">>,  \* matlab
       <<"p","e","r","l">>,  \* perl
       <<"s","h","e","l","l">>,  \* shell
       <<"b","a","s","h">>,  \* bash
       <<"p","o","w","e","r","s","h","e","l","l">>   \* powershell
    >>],
    [category |-> "web", skills |-> <<
       <<"h","t","m","l">>,  \* html
       <<"c","s","s">>,  \* css
       <<"r","e","a","c","t">>,  \* react
       <<"a","n","g","u","l","a","r">>,  \* angular
       <<"v","u","e">>,  \* vue
       <<"n","o","d","e","j","s">>,  \* nodejs
       <<"e","x","p","r","e","s","s">>,  \* express
       <<"d","j","a","n","g","o">>,  \* django
       <<"f","l","a","s","k">>,  \* flask
       <<"f","a","s","t","a","p","i">>,  \* fastapi
       <<"s","p","r","i","n","g">>,  \* spring
       <<"a","s","p",".","n","e","t">>,  \* asp.net
       <<"j","q","u","e","r","y">>,  \* jquery
       <<"b","o","o","t","s","t","r","a","p">>,  \* bootstrap
       <<"t","a","i","l","w","i","n","d">>,  \* tailwind
       <<"s","a","s","s">>,  \* sass
       <<"w","e","b","p","a","c","k">>,  \* webpack
       <<"n","e","x","t","j","s">>,  \* nextjs
       <<"g","a","t","s","b","y">>   \* gatsby
    >>],
    [category |-> "database", skills |-> <<
       <<"s","q","l">>,  \* sql
       <<"m","y","s","q","l">>,  \* mysql
       <<"p","o","s","t","g","r","e","s","q","l">>,  \* postgresql
       <<"m","o","n","g","o","d","b">>,  \* mongodb
       <<"r","e","d","i","s">>,  \* redis
       <<"c","a","s","s","a","n","d","r","a">>,  \* cassandra
       <<"o","r","a","c","l","e">>,  \* oracle
       <<"s","q","l","i","t","e">>,  \* sqlite
       <<"d","y","n","a","m","o","d","b">>,  \* dynamodb
       <<"e","l","a","s","t","i","c","s","e","a","r","c","h">>,  \* elasticsearch
       <<"n","e","o","4","j">>,  \* neo4j
       <<"f","i","r","e","b","a","s","e">>,  \* firebase
       <<"m","a","r","i","a","d","b">>   \* mariadb
    >>],
    [category |-> "cloud", skills |-> <<
       <<"a","w","s">>,  \* aws
       <<"a","z","u","r","e">>,  \* azure
       <<"g","c","p">>,  \* gcp
       <<"g","o","o","g","l","e"," ","c","l","o","u","d"," ","p","l","a","t","f","o","r","m">>,  \* google cloud platform
       <<"a","m","a","z","o","n"," ","w","e","b"," ","s","e","r","v","i","c","e","s">>,  \* amazon web services
       <<"d","o","c","k","e","r">>,  \* docker
       <<"k","u","b","e","r","n","e","t","e","s">>,  \* kubernetes
       <<"t","e","r","r","a","f","o","r","m">>,  \* terraform
       <<"a","n","s","i","b","l","e">>,  \* ansible
       <<"j","e","n","k","i","n","s">>,  \* jenkins
       <<"g","i","t","l","a","b">>,  \* gitlab
       <<"g","i","t","h","u","b"," ","a","c","t","i","o","n","s">>,  \* github actions
       <<"c","i","r","c","l","e","c","i">>,  \* circleci
       <<"h","e","r","o","k","u">>   \* heroku
    >>],
    [category |-> "data_science", skills |-> <<
       <<"m","a","c","h","i","n","e"," ","l","e","a","r","n","i","n","g">>,  \* machine learning
       <<"d","e","e","p"," ","l","e","a","r","n","i","n","g">>,  \* deep learning
       <<"a","r","t","i","f","i","c","i","a","l"," ","i","n","t","e","l","l","i","g","e","n","c","e">>,  \* artificial intelligence
       <<"n","a","t","u","r","a","l"," ","l","a","n","g","u","a","g","e"," ","p","r","o","c","e","s","s","i","n","g">>,  \* natural language processing
       <<"c","o","m","p","u","t","e","r"," ","v","i","s","i","o","n">>,  \* computer vision
       <<"t","e","n","s","o","r","f","l","o","w">>,  \* tensorflow
       <<"p","y","t","o","r","c","h">>,  \* pytorch
       <<"k","e","r","a","s">>,  \* keras
       <<"s","c","i","k","i","t","-","l","e","a","r","n">>,  \* scikit-learn
       <<"p","a","n","d","a","s">>,  \* pandas
       <<"n","u","m","p","y">>,  \* numpy
       <<"m","a","t","p","l","o","t","l","i","b">>,  \* matplotlib
       <<"s","e","a","b","o","r","n">>,  \* seaborn
       <<"t","a","b","l","e","a","u">>,  \* tableau
       <<"p","o","w","e","r"," ","b","i">>,  \* power bi
       <<"s","p","a","r","k">>,  \* spark
       <<"h","a","d","o","o","p">>,  \* hadoop
       <<"d","a","t","a"," ","a","n","a","l","y","s","i","s">>   \* data analysis
    >>],
    [category |-> "mobile", skills |-> <<
       <<"a","n","d","r","o","i","d">>,  \* android
       <<"i","o","s">>,  \* ios
       <<"r","e","a","c","t"," ","n","a","t","i","v","e">>,  \* react native
       <<"f","l","u","t","t","e","r">>,  \* flutter
       <<"x","a","m","a","r","i","n">>,  \* xamarin
       <<"s","w","i","f","t">>,  \* swift
       <<"k","o","t","l","i","n">>,  \* kotlin
       <<"m","o","b","i","l","e"," ","d","e","v","e","l","o","p","m","e","n","t">>   \* mobile development
    >>],
    [category |-> "soft_skills", skills |-> <<
       <<"l","e","a","d","e","r","s","h","i","p">>,  \* leadership
       <<"c","o","m","m","u","n","i","c","a","t","i","o","n">>,  \* communication
       <<"t","e","a","m","w","o","r","k">>,  \* teamwork
       <<"p","r","o","b","l","e","m"," ","s","o","l","v","i","n","g">>,  \* problem solving
       <<"a","n","a","l","y","t","i","c","a","l">>,  \* analytical
       <<"c","r","i","t","i","c","a","l"," ","t","h","i","n","k","i","n","g">>,  \* critical thinking
       <<"t","i","m","e"," ","m","a","n","a","g","e","m","e","n","t">>,  \* time management
       <<"p","r","o","j","e","c","t"," ","m","a","n","a","g","e","m","e","n","t">>,  \* project management
       <<"a","g","i","l","e">>,  \* agile
       <<"s","c","r","u","m">>,  \* scrum
       <<"c","o","l","l","a","b","o","r","a","t","i","o","n">>,  \* collaboration
       <<"p","r","e","s","e","n","t","a","t","i","o","n">>   \* presentation
    >>]
  >>

ACTION_VERBS ==
  <<
    <<"a","c","h","i","e","v","e","d">>,
    <<"a","c","c","o","m","p","l","i","s","h","e","d">>,
    <<"a","d","m","i","n","i","s","t","e","r","e","d">>,
    <<"a","n","a","l","y","z","e","d">>,
    <<"a","r","c","h","i","t","e","c","t","e","d">>,
    <<"a","u","t","o","m","a","t","e","d">>,
    <<"b","u","i","l","t">>,
    <<"c","o","l","l","a","b","o","r","a","t","e","d">>,
    <<"c","r","e","a","t","e","d">>,
    <<"d","e","l","i","v","e","r","e","d">>,
    <<"d","e","s","i","g","n","e","d">>,
    <<"d","e","v","e","l","o","p","e","d">>,
    <<"d","i","r","e","c","t","e","d">>,
    <<"d","r","o","v","e">>,
    <<"e","n","h","a","n","c","e","d">>,
    <<"e","s","t","a","b","l","i","s","h","e","d">>,
    <<"e","x","e","c","u","t","e","d">>,
    <<"g","e","n","e","r","a","t","e","d">>,
    <<"i","m","p","l","e","m","e","n","t","e","d">>,
    <<"i","m","p","r","o","v","e","d">>,
    <<"i","n","c","r","e","a","s","e","d">>,
    <<"i","n","i","t","i","a","t","e","d">>,
    <<"l","a","u","n","c","h","e","d">>,
    <<"l","e","d">>,
    <<"m","a","n","a","g","e","d">>,
    <<"o","p","t","i","m","i","z","e","d">>,
    <<"o","r","c","h","e","s","t","r","a","t","e","d">>,
    <<"o","r","g","a","n","i","z","e","d">>,
    <<"p","i","o","n","e","e","r","e","d">>,
    <<"p","l","a","n","n","e","d">>,
    <<"p","r","o","d","u","c","e","d">>,
    <<"r","e","d","u","c","e","d">>,
    <<"r","e","s","o","l","v","e","d">>,
    <<"s","p","e","a","r","h","e","a","d","e","d">>,
    <<"s","t","r","e","a","m","l","i","n","e","d">>,
    <<"s","t","r","e","n","g","t","h","e","n","e","d">>,
    <<"t","r","a","n","s","f","o","r","m","e","d">>,
    <<"u","p","g","r","a","d","e","d">>
  >>

skill_synonyms ==
  <<
    [abbrev |-> <<"m","l">>, full_form |-> <<"m","a","c","h","i","n","e"," ","l","e","a","r","n","i","n","g">>],
    [abbrev |-> <<"a","i">>, full_form |-> <<"a","r","t","i","f","i","c","i","a","l"," ","i","n","t","e","l","l","i","g","e","n","c","e">>],
    [abbrev |-> <<"d","l">>, full_form |-> <<"d","e","e","p"," ","l","e","a","r","n","i","n","g">>],
    [abbrev |-> <<"n","l","p">>, full_form |-> <<"n","a","t","u","r","a","l"," ","l","a","n","g","u","a","g","e"," ","p","r","o","c","e","s","s","i","n","g">>],
    [abbrev |-> <<"j","s">>, full_form |-> <<"j","a","v","a","s","c","r","i","p","t">>],
    [abbrev |-> <<"t","s">>, full_form |-> <<"t","y","p","e","s","c","r","i","p","t">>],
    [abbrev |-> <<"p","y">>, full_form |-> <<"p","y","t","h","o","n">>],
    [abbrev |-> <<"r","e","a","c","t",".","j","s">>, full_form |-> <<"r","e","a","c","t">>],
    [abbrev |-> <<"n","o","d","e",".","j","s">>, full_form |-> <<"n","o","d","e","j","s">>],
    [abbrev |-> <<"v","u","e",".","j","s">>, full_form |-> <<"v","u","e">>],
    [abbrev |-> <<"a","n","g","u","l","a","r",".","j","s">>, full_form |-> <<"a","n","g","u","l","a","r">>],
    [abbrev |-> <<"c","+","+">>, full_form |-> <<"c","p","p">>],
    [abbrev |-> <<"c","#">>, full_form |-> <<"c","s","h","a","r","p">>],
    [abbrev |-> <<"d","b">>, full_form |-> <<"d","a","t","a","b","a","s","e">>],
    [abbrev |-> <<"r","d","b","m","s">>, full_form |-> <<"r","e","l","a","t","i","o","n","a","l"," ","d","a","t","a","b","a","s","e">>],
    [abbrev |-> <<"n","o","s","q","l">>, full_form |-> <<"n","o","n","-","r","e","l","a","t","i","o","n","a","l"," ","d","a","t","a","b","a","s","e">>],
    [abbrev |-> <<"a","w","s">>, full_form |-> <<"a","m","a","z","o","n"," ","w","e","b"," ","s","e","r","v","i","c","e","s">>],
    [abbrev |-> <<"g","c","p">>, full_form |-> <<"g","o","o","g","l","e"," ","c","l","o","u","d"," ","p","l","a","t","f","o","r","m">>],
    [abbrev |-> <<"k","8","s">>, full_form |-> <<"k","u","b","e","r","n","e","t","e","s">>],
    [abbrev |-> <<"c","i","/","c","d">>, full_form |-> <<"c","o","n","t","i","n","u","o","u","s"," ","i","n","t","e","g","r","a","t","i","o","n"," ","c","o","n","t","i","n","u","o","u","s"," ","d","e","p","l","o","y","m","e","n","t">>],
    [abbrev |-> <<"d","e","v","o","p","s">>, full_form |-> <<"d","e","v","e","l","o","p","m","e","n","t"," ","o","p","e","r","a","t","i","o","n","s">>],
    [abbrev |-> <<"u","i","/","u","x">>, full_form |-> <<"u","s","e","r"," ","i","n","t","e","r","f","a","c","e"," ","u","s","e","r"," ","e","x","p","e","r","i","e","n","c","e">>]
  >>


(***************************************************************************)
(* analyzer.py: the skill matcher and the action-verb detector.            *)
(***************************************************************************)
\* re.match of r'\b' + re.escape(term) + r'\b' at index i.
WordPatternMatchesAtMissingEnd(term, text, i) ==
  /\ OccursAt(term, text, i)
  /\ WordBoundary(text, i - 1)

WordPatternMatchesAt(term, text, i) ==
  /\ OccursAt(term, text, i)
  /\ WordBoundary(text, i - 1)
  /\ WordBoundary(text, i + Len(term) - 1)

\* re.search(r'\b' + re.escape(term) + r'\b', text) is not None
WordPatternFound(term, text) ==
  \E i \in 1..(Len(text) - Len(term) + 1) : WordPatternMatchesAt(term, text, i)

\* all_skills: the vocabulary flattened in category order; a skill listed
\* under two categories stands in it twice.
all_skills == ConcatAll([i \in 1..Len(COMMON_SKILLS) |-> COMMON_SKILLS[i].skills])

DensityScore(skill_count) ==
  IF skill_count >= 15 THEN 95
  ELSE IF skill_count >= 10 THEN 80
  ELSE IF skill_count >= 5 THEN 60
  ELSE 30

calculate_skill_density(text) ==
  LET text_lower == lower(text)
      found_skills == SelectSeq(all_skills, LAMBDA skill : WordPatternFound(skill, text_lower))
      skill_count == Len(found_skills)
  IN  [found_skills |-> found_skills,
       skill_count |-> skill_count,
       density_score |-> DensityScore(skill_count)]

VerbScore(verb_count) ==
  IF verb_count >= 10 THEN 95
  ELSE IF verb_count >= 6 THEN 80
  ELSE IF verb_count >= 3 THEN 60
  ELSE 30

VerbObservation(verb_count) ==
  IF verb_count >= 10 THEN "Excellent use of action verbs"
  ELSE IF verb_count >= 6 THEN "Good action verb usage"
  ELSE IF verb_count >= 3 THEN "Moderate action verb usage"
  ELSE "Limited action verbs"

detect_action_verbs(text) ==
  LET text_lower == lower(text)
      found_verbs == SelectSeq(ACTION_VERBS, LAMBDA verb : WordPatternFound(verb, text_lower))
      verb_count == Len(found_verbs)
  IN  [found_verbs |-> found_verbs,
       verb_count |-> verb_count,
       verb_score |-> VerbScore(verb_count),
       observation |-> VerbObservation(verb_count)]

\* list(s) of a set s of strings: the code fixes no order (the order follows
\* the string hashes, which change from one run of the program to the next),
\* so every order is a possible outcome.
RECURSIVE ListsOf(_)
ListsOf(S) ==
  IF S = {} THEN {<<>>}
  ELSE UNION {{<<x>> \o rest : rest \in ListsOf(S \ {x})} : x \in S}

AllSkillSet == Range(all_skills)

SkillsIn(text) == {skill \in AllSkillSet : WordPatternFound(skill, text)}

\* round(len(matching) / len(jd_skills) * 100, 2) in hundredths, 0 without jd skills.
\* The overlap taken as complete when the job description names no skill.
OverlapPercentageVacuous(matching, jd_skills) ==
  IF Cardinality(jd_skills) > 0
  THEN RoundHalfEven(Cardinality(matching) * 10000, Cardinality(jd_skills))
  ELSE 10000

OverlapPercentage(matching, jd_skills) ==
  IF Cardinality(jd_skills) > 0
  THEN RoundHalfEven(Cardinality(matching) * 10000, Cardinality(jd_skills))
  ELSE 0

MissingSkillsSwapped(resume_skills, jd_skills) == resume_skills \ jd_skills

MissingSkills(resume_skills, jd_skills) == jd_skills \ resume_skills

\* The results find_skill_overlap can return: one per order of the two lists
\* the caller reads.  resume_skills and jd_skills, lists that no caller
\* reads, are kept as the sets they are built from.
find_skill_overlap(resume_txt, jd_txt) ==
  LET resume_skills == SkillsIn(lower(resume_txt))
      jd_skills == SkillsIn(lower(jd_txt))
      matching_skills == resume_skills \cap jd_skills
      missing_skills == MissingSkills(resume_skills, jd_skills)
  IN  {[resume_skills |-> resume_skills,
        jd_skills |-> jd_skills,
        matching_skills |-> matching,
        missing_skills |-> missing,
        overlap_percentage |-> OverlapPercentage(matching_skills, jd_skills)] :
          matching \in ListsOf(matching_skills), missing \in ListsOf(missing_skills)}

(***************************************************************************)
(* analyzer.py: check_ats_compatibility.                                   *)
(***************************************************************************)
IssueTable == "Contains table formatting that may not parse well"
IssueShortLines == "Multiple short lines detected - avoid multi-column layouts"
IssueCaps == "Excessive capitalization - use mixed case"
IssueTooShort == "Resume appears too short"
IssueTooLong == "Resume may be too long - consider condensing"

\* len(re.findall(r'[...]', text)): the box-drawing characters of the text.
SpecialCharCount(text) == Cardinality({i \in 1..Len(text) : text[i] = "box"})

\* sum(1 for line in lines if 0 < len(line.strip()) < 20)
ShortLineCount(lines) ==
  Cardinality({i \in 1..Len(lines) :
     LET n == Len(strip(lines[i])) IN 0 < n /\ n < 20})

\* short_lines > len(lines) * 0.3, with every line of the text in len(lines).
ShortLinesTriggerNonEmptyOnly(lines) ==
  10 * ShortLineCount(lines) >
     3 * Cardinality({i \in 1..Len(lines) : Len(strip(lines[i])) > 0})

ShortLinesTrigger(lines) == 10 * ShortLineCount(lines) > 3 * Len(lines)

IsCompatibleAbove70(score) == score > 70

IsCompatible(score) == score >= 70

check_ats_compatibility(text) ==
  LET table == SpecialCharCount(text) > 10
      short == ShortLinesTrigger(SplitLines(text))
      caps == isupper(text)
      word_count == WordCount(text)
      too_short == word_count < 100
      too_long == ~too_short /\ word_count > 1500
      issues == (IF table THEN <<IssueTable>> ELSE <<>>)
                \o (IF short THEN <<IssueShortLines>> ELSE <<>>)
                \o (IF caps THEN <<IssueCaps>> ELSE <<>>)
                \o (IF too_short THEN <<IssueTooShort>> ELSE <<>>)
                \o (IF too_long THEN <<IssueTooLong>> ELSE <<>>)
      score == 100 - (IF table THEN 20 ELSE 0) - (IF short THEN 15 ELSE 0)
                   - (IF caps THEN 10 ELSE 0) - (IF too_short THEN 20 ELSE 0)
                   - (IF too_long THEN 10 ELSE 0)
  IN  [score |-> Max(score, 0),
       issues |-> issues,
       is_compatible |-> IsCompatible(score)]

(***************************************************************************)
(* scorer.py.  A dict is the sequence of its entries in insertion order;   *)
(* a section analysis is a dict of records that carry their section name.  *)
(***************************************************************************)
Keys(dict) == {dict[i].name : i \in 1..Len(dict)}
At(dict, name) == dict[CHOOSE i \in 1..Len(dict) : dict[i].name = name]

critical_sections == <<"skills", "education", "experience">>
important_sections == <<"objective", "summary", "projects">>

(***************************************************************************)
(* analyzer.py: analyze_sections.                                          *)
(***************************************************************************)
Importance(section_name) ==
  IF section_name \in Range(critical_sections) THEN "critical"
  ELSE IF section_name \in Range(important_sections) THEN "important"
  ELSE "optional"

\* Presence by the number of characters that are not whitespace.
IsPresentByNonWhitespace(content) ==
  Cardinality({i \in 1..Len(content) : ~IsSpaceChar(content[i])}) > 10

\* bool(content and len(content.strip()) > 10)
IsPresent(content) == Len(content) > 0 /\ Len(strip(content)) > 10

\* len(re.findall(r'[,\n<bullet>\-]', content)) + 1
SkillItemCount(content) ==
  Cardinality({i \in 1..Len(content) : content[i] \in {",", "\n", "bullet", "-"}}) + 1

\* The quality score and the observation of a section that is present.
SectionQuality(section_name, content) ==
  LET word_count == WordCount(content)
      skill_count == SkillItemCount(content)
  IN  IF section_name = "skills"
      THEN (IF skill_count >= 10
            THEN [score |-> 90, observation |-> "Strong technical skills listed"]
            ELSE IF skill_count >= 5
            THEN [score |-> 70, observation |-> "Good skills coverage"]
            ELSE [score |-> 50, observation |-> "Limited skills listed"])
      ELSE IF section_name \in {"experience", "internships"}
      THEN (IF word_count >= 100
            THEN [score |-> 90, observation |-> "Well-detailed experience"]
            ELSE IF word_count >= 50
            THEN [score |-> 70, observation |-> "Adequate experience details"]
            ELSE [score |-> 50, observation |-> "Brief experience description"])
      ELSE IF section_name = "education"
      THEN (IF word_count >= 20
            THEN [score |-> 85, observation |-> "Complete education details"]
            ELSE [score |-> 60, observation |-> "Basic education info"])
      ELSE IF section_name \in {"projects", "achievements"}
      THEN (IF word_count >= 50
            THEN [score |-> 85,
                  observation |-> IF section_name = "projects"
                                  THEN "Strong projects section"
                                  ELSE "Strong achievements section"]
            ELSE [score |-> 60,
                  observation |-> IF section_name = "projects"
                                  THEN "Brief projects description"
                                  ELSE "Brief achievements description"])
      ELSE [score |-> IF word_count >= 20 THEN 70 ELSE 50, observation |-> "Section present"]

analyze_sections(sections_) ==
  [i \in 1..Len(sections_) |->
     LET section_name == sections_[i].name
         content == sections_[i].content
         is_present == IsPresent(content)
         quality == IF is_present THEN SectionQuality(section_name, content)
                    ELSE [score |-> 0, observation |-> "Section missing"]
     IN  [name |-> section_name,
          present |-> is_present,
          importance |-> Importance(section_name),
          score |-> quality.score,
          observation |-> quality.observation,
          word_count |-> IF is_present THEN WordCount(content) ELSE 0]]

(***************************************************************************)
(* scorer.py: the scores.                                                  *)
(***************************************************************************)
SectionWeightFlat(section_name) == 10

SectionWeight(section_name) ==
  IF section_name \in Range(critical_sections) THEN 10
  ELSE IF section_name \in Range(important_sections) THEN 5
  ELSE 2

AtsScoreUnweighted(section_analysis_, skill_analysis_, verb_analysis_, ats_compatibility_) ==
  LET section_score == SumSeq([i \in 1..Len(section_analysis_) |->
                                 section_analysis_[i].score * SectionWeight(section_analysis_[i].name)])
  IN  30 * section_score + 25 * skill_analysis_.density_score
        + 20 * verb_analysis_.verb_score + 25 * ats_compatibility_.score

\* calculate_ats_score in hundredths:
\* round(section_completeness * 0.30 + density * 0.25 + verbs * 0.20 + compat * 0.25, 2)
\* with section_completeness = section_score / total_weight, 0 without sections.
calculate_ats_score(section_analysis_, skill_analysis_, verb_analysis_, ats_compatibility_) ==
  LET section_score == SumSeq([i \in 1..Len(section_analysis_) |->
                                 section_analysis_[i].score * SectionWeight(section_analysis_[i].name)])
      total_weight == SumSeq([i \in 1..Len(section_analysis_) |->
                                 SectionWeight(section_analysis_[i].name)])
      others == 25 * skill_analysis_.density_score + 20 * verb_analysis_.verb_score
                  + 25 * ats_compatibility_.score
  IN  IF total_weight > 0
      THEN RoundHalfEven(30 * section_score + total_weight * others, total_weight)
      ELSE others

JdMatchWeightsSwapped(tfidf_similarity, skill_overlap_) ==
  RoundHalfEven(40 * tfidf_similarity + 60 * skill_overlap_.overlap_percentage, 100)

\* calculate_jd_match in hundredths: round(similarity * 0.60 + overlap * 0.40, 2)
calculate_jd_match(tfidf_similarity, skill_overlap_) ==
  RoundHalfEven(60 * tfidf_similarity + 40 * skill_overlap_.overlap_percentage, 100)

\* generate_section_scores without its filter.
GenerateAllSectionScores(section_analysis_) ==
  [i \in 1..Len(section_analysis_) |->
     [name |-> section_analysis_[i].name,
      present |-> section_analysis_[i].present,
      score |-> section_analysis_[i].score,
      observation |-> section_analysis_[i].observation,
      importance |-> section_analysis_[i].importance]]

\* generate_section_scores: the entries of the sections that are present or
\* whose importance is critical or important; the others are left out.
generate_section_scores(section_analysis_) ==
  LET kept == SelectSeq(section_analysis_, LAMBDA analysis :
                 analysis.present \/ analysis.importance \in {"critical", "important"})
  IN  [i \in 1..Len(kept) |->
         [name |-> kept[i].name,
          present |-> kept[i].present,
          score |-> kept[i].score,
          observation |-> kept[i].observation,
          importance |-> kept[i].importance]]

\* get_score_interpretation; the scores in hundredths.
get_score_interpretation(ats_score_, jd_match_score_) ==
  [ats_level |-> IF ats_score_ >= 8000 THEN "excellent"
                 ELSE IF ats_score_ >= 6000 THEN "good"
                 ELSE IF ats_score_ >= 4000 THEN "fair"
                 ELSE "poor",
   ats_interpretation |->
      IF ats_score_ >= 8000 THEN "Excellent - Your resume is highly ATS-compatible"
      ELSE IF ats_score_ >= 6000 THEN "Good - Your resume should pass most ATS systems"
      ELSE IF ats_score_ >= 4000
      THEN "Fair - Consider improvements to increase ATS compatibility"
      ELSE "Needs Improvement - Significant changes recommended",
   jd |-> IF jd_match_score_ = None THEN None
          ELSE LET score == Get(jd_match_score_)
               IN  Some([jd_level |-> IF score >= 7500 THEN "excellent"
                                      ELSE IF score >= 6000 THEN "good"
                                      ELSE IF score >= 4000 THEN "fair"
                                      ELSE "poor",
                         jd_interpretation |->
                            IF score >= 7500
                            THEN "Strong Match - Your resume aligns well with the job description"
                            ELSE IF score >= 6000
                            THEN "Good Match - Your resume is relevant to the position"
                            ELSE IF score >= 4000
                            THEN "Moderate Match - Consider highlighting relevant skills"
                            ELSE "Weak Match - Your resume may not align with this position"])]

(***************************************************************************)
(* feedback.py.  A message is the text of its f-string with the values put *)
(* into it: a section title, or the skills joined by ', '.                 *)
(***************************************************************************)
\* str.title() on the section names.
Title(section) ==
  CASE section = "skills" -> "Skills"
    [] section = "education" -> "Education"
    [] section = "experience" -> "Experience"
    [] section = "internships" -> "Internships"
    [] section = "objective" -> "Objective"
    [] section = "summary" -> "Summary"
    [] section = "projects" -> "Projects"
    [] section = "achievements" -> "Achievements"
    [] section = "certifications" -> "Certifications"
    [] section = "contact" -> "Contact"

Message(text, title, skills) == [text |-> text, title |-> title, skills |-> skills]

Recommendation(priority, category, message) ==
  [priority |-> priority, category |-> category, message |-> message]

\* One recommendation per section of the list that the analysis holds as absent.
MissingSectionRecs(names, section_analysis_, priority, text) ==
  LET missing == SelectSeq(names, LAMBDA section :
                    section \in Keys(section_analysis_)
                    /\ ~At(section_analysis_, section).present)
  IN  [i \in 1..Len(missing) |->
         Recommendation(priority, "missing_section", Message(text, Title(missing[i]), <<>>))]

\* The skill rule with its two thresholds taken as inclusive.
SkillRecsInclusive(skill_analysis_) ==
  IF skill_analysis_.skill_count <= 5
  THEN <<Recommendation("critical", "skills",
           Message("Add more technical skills - aim for at least 8-10 relevant skills", "", <<>>))>>
  ELSE IF skill_analysis_.skill_count <= 10
  THEN <<Recommendation("important", "skills",
           Message("Expand your skills section with more relevant technologies", "", <<>>))>>
  ELSE <<>>

SkillRecs(skill_analysis_) ==
  IF skill_analysis_.skill_count < 5
  THEN <<Recommendation("critical", "skills",
           Message("Add more technical skills - aim for at least 8-10 relevant skills", "", <<>>))>>
  ELSE IF skill_analysis_.skill_count < 10
  THEN <<Recommendation("important", "skills",
           Message("Expand your skills section with more relevant technologies", "", <<>>))>>
  ELSE <<>>

VerbRecs(verb_analysis_) ==
  IF verb_analysis_.verb_count < 3
  THEN <<Recommendation("important", "action_verbs",
           Message("Use stronger action verbs like 'achieved', 'led', 'implemented', 'optimized'", "", <<>>))>>
  ELSE IF verb_analysis_.verb_count < 6
  THEN <<Recommendation("suggested", "action_verbs",
           Message("Increase use of action verbs to make your accomplishments more impactful", "", <<>>))>>
  ELSE <<>>

\* One recommendation per issue, whether the format is compatible or not.
CompatibilityRecsPerIssue(ats_compatibility_) ==
  [i \in 1..Len(ats_compatibility_.issues) |->
     Recommendation("important", "ats_compatibility",
                    Message(ats_compatibility_.issues[i], "", <<>>))]

CompatibilityRecs(ats_compatibility_) ==
  IF ~ats_compatibility_.is_compatible
  THEN [i \in 1..Len(ats_compatibility_.issues) |->
          Recommendation("important", "ats_compatibility",
                         Message(ats_compatibility_.issues[i], "", <<>>))]
  ELSE <<>>

SectionQualityRecs(section_analysis_) ==
  LET weak == SelectSeq(section_analysis_, LAMBDA analysis :
                 analysis.present /\ analysis.score < 60
                 /\ analysis.name \in {"experience", "skills"})
  IN  [i \in 1..Len(weak) |->
         Recommendation("important", "section_quality",
           Message(IF weak[i].name = "experience"
                   THEN "Expand your Experience section with more detailed accomplishments and metrics"
                   ELSE "List more specific skills and technologies in your Skills section",
                   "", <<>>))]

\* The missing skills without the cut.
TopMissingUncut(missing_skills) == missing_skills

\* missing_skills[:5]
TopMissing(missing_skills) ==
  SubSeq(missing_skills, 1, IF Len(missing_skills) < 5 THEN Len(missing_skills) ELSE 5)

JdRecs(jd_analysis_) ==
  IF jd_analysis_ = None THEN <<>>
  ELSE (IF Len(Get(jd_analysis_).missing_skills) > 0
        THEN <<Recommendation("critical", "jd_match",
                 Message("Add these job-relevant skills if you have them: ", "",
                         TopMissing(Get(jd_analysis_).missing_skills)))>>
        ELSE <<>>)
       \o (IF Get(jd_analysis_).overlap_percentage < 4000
           THEN <<Recommendation("important", "jd_match",
                    Message("Your resume has limited overlap with the job description - tailor it to match key requirements", "", <<>>))>>
           ELSE <<>>)

GeneralRecs(ats_score_) ==
  IF ats_score_ < 6000
  THEN <<Recommendation("important", "general",
           Message("Use a simple, clean format with clear section headings", "", <<>>)),
         Recommendation("suggested", "general",
           Message("Avoid tables, images, and complex formatting that ATS systems may not parse correctly", "", <<>>))>>
  ELSE <<>>

\* The list generate_recommendations holds before it sorts it.
RecommendationRules(ats_score_, section_analysis_, skill_analysis_, verb_analysis_, ats_compatibility_, jd_analysis_) ==
  MissingSectionRecs(critical_sections, section_analysis_, "critical",
                     "Add a {section} section - this is essential for ATS parsing")
  \o MissingSectionRecs(important_sections, section_analysis_, "important",
                        "Consider adding a {section} section to strengthen your resume")
  \o SkillRecs(skill_analysis_)
  \o VerbRecs(verb_analysis_)
  \o CompatibilityRecs(ats_compatibility_)
  \o SectionQualityRecs(section_analysis_)
  \o JdRecs(jd_analysis_)
  \o GeneralRecs(ats_score_)

\* priority_order.get(priority, 3)
PriorityRank(priority) ==
  CASE priority = "critical" -> 0
    [] priority = "important" -> 1
    [] priority = "suggested" -> 2
    [] OTHER -> 3

\* list.sort(key=...) is stable: an element goes behind the elements of the
\* sorted part whose key is not larger.
RECURSIVE InsertByPriority(_, _)
InsertByPriority(sorted, rec) ==
  IF sorted = <<>> THEN <<rec>>
  ELSE IF PriorityRank(Head(sorted).priority) <= PriorityRank(rec.priority)
       THEN <<Head(sorted)>> \o InsertByPriority(Tail(sorted), rec)
       ELSE <<rec>> \o sorted

RECURSIVE InsertBeforeEqualPriority(_, _)
InsertBeforeEqualPriority(sorted, rec) ==
  IF sorted = <<>> THEN <<rec>>
  ELSE IF PriorityRank(Head(sorted).priority) < PriorityRank(rec.priority)
       THEN <<Head(sorted)>> \o InsertBeforeEqualPriority(Tail(sorted), rec)
       ELSE <<rec>> \o sorted

RECURSIVE SortUnstable(_)
SortUnstable(recs) ==
  IF recs = <<>> THEN <<>>
  ELSE InsertBeforeEqualPriority(SortUnstable(SubSeq(recs, 1, Len(recs) - 1)), recs[Len(recs)])

RECURSIVE SortByPriority(_)
SortByPriority(recs) ==
  IF recs = <<>> THEN <<>>
  ELSE InsertByPriority(SortByPriority(SubSeq(recs, 1, Len(recs) - 1)), recs[Len(recs)])

generate_recommendations(ats_score_, section_analysis_, skill_analysis_, verb_analysis_, ats_compatibility_, jd_analysis_) ==
  SortByPriority(RecommendationRules(ats_score_, section_analysis_, skill_analysis_,
                                     verb_analysis_, ats_compatibility_, jd_analysis_))

\* A strength is the text of its f-string with the values put into it.
Strength(text, title, count) == [text |-> text, title |-> title, count |-> count]

identify_strengths(section_analysis_, skill_analysis_, verb_analysis_, ats_compatibility_) ==
  LET strong == SelectSeq(section_analysis_, LAMBDA analysis :
                   analysis.present /\ analysis.score >= 80)
  IN  [i \in 1..Len(strong) |-> Strength("Strong {section} section", Title(strong[i].name), 0)]
      \o (IF skill_analysis_.skill_count >= 10
          THEN <<Strength("Comprehensive skills coverage ({count} skills identified)", "",
                          skill_analysis_.skill_count)>>
          ELSE <<>>)
      \o (IF verb_analysis_.verb_count >= 8
          THEN <<Strength("Excellent use of action verbs ({count} strong verbs)", "",
                          verb_analysis_.verb_count)>>
          ELSE <<>>)
      \o (IF ats_compatibility_.score >= 90
          THEN <<Strength("Highly ATS-compatible format", "", 0)>>
          ELSE <<>>)

\* A part of the summary: the text of its f-string and the value put into it.
SummaryPart(text, score, strength, message) ==
  [text |-> text, score |-> score, strength |-> strength, message |-> message]

NoStrength == Strength("", "", 0)
NoMessage == Message("", "", <<>>)

\* generate_summary with the job-match score tested for truth instead of for None.
SummaryWithoutZeroJdScore(ats_score_, jd_match_score_, recommendations_, strengths_) ==
  LET critical_recs == SelectSeq(recommendations_, LAMBDA r : r.priority = "critical")
  IN  <<SummaryPart(IF ats_score_ >= 7500
                    THEN "Your resume is well-optimized for ATS systems."
                    ELSE IF ats_score_ >= 6000
                    THEN "Your resume is generally ATS-friendly with room for improvement."
                    ELSE "Your resume needs significant improvements for ATS compatibility.",
                    0, NoStrength, NoMessage)>>
      \o (IF jd_match_score_ # None /\ Get(jd_match_score_) # 0
          THEN <<SummaryPart(IF Get(jd_match_score_) >= 7000
                             THEN "It shows a strong match ({score}%) with the job description."
                             ELSE IF Get(jd_match_score_) >= 5000
                             THEN "It has a moderate match ({score}%) with the job description."
                             ELSE "It has limited alignment ({score}%) with the job description.",
                             Get(jd_match_score_), NoStrength, NoMessage)>>
          ELSE <<>>)
      \o (IF Len(strengths_) > 0
          THEN <<SummaryPart("Key strength: {strength}.", 0, strengths_[1], NoMessage)>>
          ELSE <<>>)
      \o (IF Len(critical_recs) > 0
          THEN <<SummaryPart("Priority action: {message}.", 0, NoStrength,
                             critical_recs[1].message)>>
          ELSE <<>>)

\* generate_summary: the parts that " ".join puts together; scores in hundredths.
generate_summary(ats_score_, jd_match_score_, recommendations_, strengths_) ==
  LET critical_recs == SelectSeq(recommendations_, LAMBDA r : r.priority = "critical")
  IN  <<SummaryPart(IF ats_score_ >= 7500
                    THEN "Your resume is well-optimized for ATS systems."
                    ELSE IF ats_score_ >= 6000
                    THEN "Your resume is generally ATS-friendly with room for improvement."
                    ELSE "Your resume needs significant improvements for ATS compatibility.",
                    0, NoStrength, NoMessage)>>
      \o (IF jd_match_score_ # None
          THEN <<SummaryPart(IF Get(jd_match_score_) >= 7000
                             THEN "It shows a strong match ({score}%) with the job description."
                             ELSE IF Get(jd_match_score_) >= 5000
                             THEN "It has a moderate match ({score}%) with the job description."
                             ELSE "It has limited alignment ({score}%) with the job description.",
                             Get(jd_match_score_), NoStrength, NoMessage)>>
          ELSE <<>>)
      \o (IF Len(strengths_) > 0
          THEN <<SummaryPart("Key strength: {strength}.", 0, strengths_[1], NoMessage)>>
          ELSE <<>>)
      \o (IF Len(critical_recs) > 0
          THEN <<SummaryPart("Priority action: {message}.", 0, NoStrength,
                             critical_recs[1].message)>>
          ELSE <<>>)

(***************************************************************************)
(* parser.py: detect_sections.                                             *)
(***************************************************************************)
\* The keys of the sections dict, in insertion order.
SectionNames ==
  <<"objective", "summary", "skills", "education", "experience", "internships",
    "projects", "achievements", "certifications", "contact">>

\* section_patterns, in insertion order.  Each pattern is
\*   (?:^|\n)\s*(?:<phrases>)\s*[:\n]
\* under IGNORECASE and MULTILINE; its alternatives are listed in the order
\* the regex engine tries them (an optional letter first taken, then left out).
section_patterns ==
  <<
    [name |-> "objective", phrases |-> <<
       <<"o","b","j","e","c","t","i","v","e">>,  \* objective
       <<"c","a","r","e","e","r"," ","o","b","j","e","c","t","i","v","e">>,  \* career objective
       <<"p","r","o","f","e","s","s","i","o","n","a","l"," ","o","b","j","e","c","t","i","v","e">>   \* professional objective
    >>],
    [name |-> "summary", phrases |-> <<
       <<"s","u","m","m","a","r","y">>,  \* summary
       <<"p","r","o","f","e","s","s","i","o","n","a","l"," ","s","u","m","m","a","r","y">>,  \* professional summary
       <<"p","r","o","f","i","l","e">>,  \* profile
       <<"a","b","o","u","t"," ","m","e">>   \* about me
    >>],
    [name |-> "skills", phrases |-> <<
       <<"s","k","i","l","l","s">>,  \* skills
       <<"t","e","c","h","n","i","c","a","l"," ","s","k","i","l","l","s">>,  \* technical skills
       <<"c","o","r","e"," ","c","o","m","p","e","t","e","n","c","i","e","s">>,  \* core competencies
       <<"e","x","p","e","r","t","i","s","e">>,  \* expertise
       <<"t","e","c","h","n","o","l","o","g","i","e","s">>   \* technologies
    >>],
    [name |-> "education", phrases |-> <<
       <<"e","d","u","c","a","t","i","o","n">>,  \* education
       <<"a","c","a","d","e","m","i","c"," ","b","a","c","k","g","r","o","u","n","d">>,  \* academic background
       <<"q","u","a","l","i","f","i","c","a","t","i","o","n","s">>   \* qualifications
    >>],
    [name |-> "experience", phrases |-> <<
       <<"e","x","p","e","r","i","e","n","c","e">>,  \* experience
       <<"w","o","r","k"," ","e","x","p","e","r","i","e","n","c","e">>,  \* work experience
       <<"p","r","o","f","e","s","s","i","o","n","a","l"," ","e","x","p","e","r","i","e","n","c","e">>,  \* professional experience
       <<"e","m","p","l","o","y","m","e","n","t"," ","h","i","s","t","o","r","y">>   \* employment history
    >>],
    [name |-> "internships", phrases |-> <<
       <<"i","n","t","e","r","n","s","h","i","p","s">>,  \* internships
       <<"i","n","t","e","r","n","s","h","i","p">>,  \* internship
       <<"i","n","t","e","r","n","s","h","i","p"," ","e","x","p","e","r","i","e","n","c","e">>   \* internship experience
    >>],
    [name |-> "projects", phrases |-> <<
       <<"p","r","o","j","e","c","t","s">>,  \* projects
       <<"p","r","o","j","e","c","t">>,  \* project
       <<"a","c","a","d","e","m","i","c"," ","p","r","o","j","e","c","t","s">>,  \* academic projects
       <<"a","c","a","d","e","m","i","c"," ","p","r","o","j","e","c","t">>,  \* academic project
       <<"p","e","r","s","o","n","a","l"," ","p","r","o","j","e","c","t","s">>,  \* personal projects
       <<"p","e","r","s","o","n","a","l"," ","p","r","o","j","e","c","t">>   \* personal project
    >>],
    [name |-> "achievements", phrases |-> <<
       <<"a","c","h","i","e","v","e","m","e","n","t","s">>,  \* achievements
       <<"a","c","h","i","e","v","e","m","e","n","t">>,  \* achievement
       <<"a","c","c","o","m","p","l","i","s","h","m","e","n","t","s">>,  \* accomplishments
       <<"a","c","c","o","m","p","l","i","s","h","m","e","n","t">>,  \* accomplishment
       <<"a","w","a","r","d","s">>,  \* awards
       <<"a","w","a","r","d">>,  \* award
       <<"h","o","n","o","r","s">>,  \* honors
       <<"h","o","n","o","r">>   \* honor
    >>],
    [name |-> "certifications", phrases |-> <<
       <<"c","e","r","t","i","f","i","c","a","t","i","o","n","s">>,  \* certifications
       <<"c","e","r","t","i","f","i","c","a","t","i","o","n">>,  \* certification
       <<"c","e","r","t","i","f","i","c","a","t","e","s">>,  \* certificates
       <<"c","e","r","t","i","f","i","c","a","t","e">>,  \* certificate
       <<"l","i","c","e","n","s","e","s">>,  \* licenses
       <<"l","i","c","e","n","s","e">>   \* license
    >>],
    [name |-> "contact", phrases |-> <<
       <<"c","o","n","t","a","c","t">>,  \* contact
       <<"c","o","n","t","a","c","t"," ","i","n","f","o","r","m","a","t","i","o","n">>,  \* contact information
       <<"p","e","r","s","o","n","a","l"," ","d","e","t","a","i","l","s">>   \* personal details
    >>]
  >>

\* ^ under MULTILINE: the start of the text or just behind a line break.
LineStart(text, i) == i = 1 \/ text[i - 1] = "\n"

\* The index behind the run of whitespace that starts at index i.
SpaceRunEnd(text, i) ==
  CHOOSE j \in i..(Len(text) + 1) :
    /\ j = Len(text) + 1 \/ ~IsSpaceChar(text[j])
    /\ \A k \in i..(j - 1) : IsSpaceChar(text[k])

\* The literal phrase at index i, letter case ignored.
PhraseAt(phrase, text, i) ==
  /\ i + Len(phrase) - 1 <= Len(text)
  /\ \A k \in 1..Len(phrase) : ToLowerChar(text[i + k - 1]) = phrase[k]

\* \s*[:\n] from index e on: the index behind the match, 0 without one.  The
\* greedy \s* takes the whole run of whitespace when a colon follows it and
\* otherwise gives back up to the last line break of the run.
HeaderTailEnd(text, e) ==
  LET r == SpaceRunEnd(text, e)
      breaks == {k \in e..(r - 1) : text[k] = "\n"}
  IN  IF r <= Len(text) /\ text[r] = ":" THEN r + 1
      ELSE IF breaks # {} THEN (CHOOSE k \in breaks : \A m \in breaks : m <= k) + 1
      ELSE 0

\* The pattern matched at index p: the index behind the match, 0 without one.
HeaderMatchEnd(phrases, text, p) ==
  IF ~(LineStart(text, p) \/ text[p] = "\n") THEN 0
  ELSE LET t == SpaceRunEnd(text, p)
           hits == {k \in 1..Len(phrases) :
                      /\ PhraseAt(phrases[k], text, t)
                      /\ HeaderTailEnd(text, t + Len(phrases[k])) # 0}
       IN  IF hits = {} THEN 0
           ELSE LET first == CHOOSE k \in hits : \A m \in hits : k <= m
                IN  HeaderTailEnd(text, t + Len(phrases[first]))

\* re.finditer from index p on: the starts of the matches, left to right,
\* none overlapping the one before it.
RECURSIVE HeaderStartsFrom(_, _, _)
HeaderStartsFrom(phrases, text, p) ==
  LET found == {q \in p..Len(text) : HeaderMatchEnd(phrases, text, q) # 0}
  IN  IF found = {} THEN <<>>
      ELSE LET q == CHOOSE x \in found : \A y \in found : x <= y
           IN  <<q>> \o HeaderStartsFrom(phrases, text, HeaderMatchEnd(phrases, text, q))

\* section_positions before the sort: (start, section_name) in pattern order.
SectionPositions(text) ==
  ConcatAll([i \in 1..Len(section_patterns) |->
     LET starts == HeaderStartsFrom(section_patterns[i].phrases, text, 1)
     IN  [k \in 1..Len(starts) |-> [start |-> starts[k], name |-> section_patterns[i].name]]])

\* The place of a section name in the order of Python's string comparison.
NameRank(name) ==
  CASE name = "achievements" -> 1
    [] name = "certifications" -> 2
    [] name = "contact" -> 3
    [] name = "education" -> 4
    [] name = "experience" -> 5
    [] name = "internships" -> 6
    [] name = "objective" -> 7
    [] name = "projects" -> 8
    [] name = "skills" -> 9
    [] name = "summary" -> 10

PositionBefore(a, b) ==
  a.start < b.start \/ (a.start = b.start /\ NameRank(a.name) <= NameRank(b.name))

\* section_positions.sort()
RECURSIVE InsertPosition(_, _)
InsertPosition(sorted, pos) ==
  IF sorted = <<>> THEN <<pos>>
  ELSE IF PositionBefore(Head(sorted), pos)
       THEN <<Head(sorted)>> \o InsertPosition(Tail(sorted), pos)
       ELSE <<pos>> \o sorted

RECURSIVE SortPositions(_)
SortPositions(positions) ==
  IF positions = <<>> THEN <<>>
  ELSE InsertPosition(SortPositions(Tail(positions)), Head(positions))

\* The content with its first line left in.
KeepFirstLine(content) == content

\* '\n'.join(content.split('\n')[1:]): the content without its first line.
DropFirstLine(content) ==
  LET breaks == {i \in 1..Len(content) : content[i] = "\n"}
  IN  IF breaks = {} THEN <<>>
      ELSE SubSeq(content, (CHOOSE i \in breaks : \A j \in breaks : i <= j) + 1, Len(content))

\* The content the loop assigns for the i-th sorted position.
SectionContent(text, positions, i) ==
  LET end_pos == IF i < Len(positions) THEN positions[i + 1].start - 1 ELSE Len(text)
  IN  strip(DropFirstLine(strip(SubSeq(text, positions[i].start, end_pos))))

\* The loop with an assignment that leaves a section alone once it was assigned.
RECURSIVE AssignSectionsKeepFirst(_, _, _)
AssignSectionsKeepFirst(text, positions, k) ==
  IF k = 0 THEN [i \in 1..Len(SectionNames) |-> [name |-> SectionNames[i], content |-> <<>>]]
  ELSE LET before == AssignSectionsKeepFirst(text, positions, k - 1)
       IN  [i \in 1..Len(before) |->
              IF /\ before[i].name = positions[k].name
                 /\ \A j \in 1..(k - 1) : positions[j].name # positions[k].name
              THEN [name |-> before[i].name, content |-> SectionContent(text, positions, k)]
              ELSE before[i]]

\* The sections dict after the first k assignments of the loop.
RECURSIVE AssignSections(_, _, _)
AssignSections(text, positions, k) ==
  IF k = 0 THEN [i \in 1..Len(SectionNames) |-> [name |-> SectionNames[i], content |-> <<>>]]
  ELSE LET before == AssignSections(text, positions, k - 1)
       IN  [i \in 1..Len(before) |->
              IF before[i].name = positions[k].name
              THEN [name |-> before[i].name, content |-> SectionContent(text, positions, k)]
              ELSE before[i]]

detect_sections(text) ==
  LET positions == SortPositions(SectionPositions(text))
  IN  AssignSections(text, positions, Len(positions))

(***************************************************************************)
(* parser.py: normalize_skills.                                            *)
(***************************************************************************)
\* re.sub(r'\b' + re.escape(abbrev) + r'\b', full_form, text) from index i on:
\* the matches are taken left to right and do not overlap.
RECURSIVE ReSubFrom(_, _, _, _)
ReSubFrom(abbrev, full_form, text, i) ==
  LET found == {m \in i..Len(text) : WordPatternMatchesAt(abbrev, text, m)}
  IN  IF found = {} THEN SubSeq(text, i, Len(text))
      ELSE LET m == CHOOSE x \in found : \A y \in found : x <= y
           IN  SubSeq(text, i, m - 1) \o full_form
                 \o ReSubFrom(abbrev, full_form, text, m + Len(abbrev))

\* The first k entries of the table applied last entry first.
RECURSIVE ApplySynonymsReversed(_, _)
ApplySynonymsReversed(text_lower, k) ==
  IF k = 0 THEN text_lower
  ELSE ApplySynonymsReversed(ReSubFrom(skill_synonyms[k].abbrev, skill_synonyms[k].full_form,
                                       text_lower, 1), k - 1)

\* The loop of normalize_skills over the first k entries of the table.
RECURSIVE ApplySynonyms(_, _)
ApplySynonyms(text_lower, k) ==
  IF k = 0 THEN text_lower
  ELSE ReSubFrom(skill_synonyms[k].abbrev, skill_synonyms[k].full_form,
                 ApplySynonyms(text_lower, k - 1), 1)

\* normalize_skills without the loop over the table.
NormalizeLowerOnly(text) == lower(text)

normalize_skills(text) == ApplySynonyms(lower(text), Len(skill_synonyms))

(***************************************************************************)
(* Input texts: a text is a list of fragments joined by a separator.       *)
(***************************************************************************)
RECURSIVE Join(_, _)
Join(frags, sep) ==
  IF frags = <<>> THEN <<>>
  ELSE IF Len(frags) = 1 THEN frags[1]
  ELSE frags[1] \o sep \o Join(Tail(frags), sep)

SeqsUpTo(S, n) == UNION {[1..k -> S] : k \in 0..n}

MaxFrags == 2

MatchFragments ==
  { <<"I"," ","u","s","e","d"," ","J","a","v","a",".">>,  \* I used Java.
    <<"j","a","v","a","s","c","r","i","p","t","i","n","g">>,  \* javascripting
    <<"p","y","t","h","o","n">>,  \* python
    <<"S","w","i","f","t">>,  \* Swift
    <<"j","a","v","a","_","s","c","r","i","p","t">>,  \* java_script
    <<"L","e","d">>,  \* Led
    <<"m","i","s","l","e","d">> }  \* misled

JdTexts ==
  { <<>>,
    <<"j","a","v","a","s","c","r","i","p","t","i","n","g">>,  \* javascripting
    <<"J","a","v","a",".">>,  \* Java.
    <<"P","y","t","h","o","n",","," ","S","Q","L">>,  \* Python, SQL
    <<"P","y","t","h","o","n",","," ","S","Q","L"," ","s","w","i","f","t",";">> }  \* Python, SQL swift;

(***************************************************************************)
(* SpecMatch: the three matchers of analyzer.py, each called on texts      *)
(* drawn from MatchTexts and JdTexts.                                      *)
(***************************************************************************)
InitMatch ==
  /\ pc = "match"
  /\ \E f \in SeqsUpTo(MatchFragments, MaxFrags) :
        /\ input_lines = f
        /\ resume_text = Join(f, <<" ">>)
  /\ jd_text \in {Some(t) : t \in JdTexts}
  /\ similarity = 0
  /\ sections = None
  /\ resume_normalized = None
  /\ section_analysis = None
  /\ skill_analysis = None
  /\ verb_analysis = None
  /\ ats_compatibility = None
  /\ ats_score = None
  /\ skill_overlap = None
  /\ jd_match_score = None
  /\ jd_analysis = None
  /\ recommendations = None
  /\ response = None
  /\ previous = None

CallSkillDensity ==
  /\ pc = "match"
  /\ skill_analysis = None
  /\ skill_analysis' = Some(calculate_skill_density(resume_text))
  /\ UNCHANGED <<pc, input_lines, resume_text, jd_text, similarity, sections, resume_normalized,
                 section_analysis, verb_analysis, ats_compatibility, ats_score,
                 skill_overlap, jd_match_score, jd_analysis, recommendations, response, previous>>

CallDetectVerbs ==
  /\ pc = "match"
  /\ skill_analysis # None
  /\ verb_analysis = None
  /\ verb_analysis' = Some(detect_action_verbs(resume_text))
  /\ UNCHANGED <<pc, input_lines, resume_text, jd_text, similarity, sections, resume_normalized,
                 section_analysis, skill_analysis, ats_compatibility, ats_score,
                 skill_overlap, jd_match_score, jd_analysis, recommendations, response, previous>>

CallSkillOverlap ==
  /\ pc = "match"
  /\ verb_analysis # None
  /\ skill_overlap = None
  /\ \E result \in find_skill_overlap(resume_text, Get(jd_text)) :
        skill_overlap' = Some(result)
  /\ UNCHANGED <<pc, input_lines, resume_text, jd_text, similarity, sections, resume_normalized,
                 section_analysis, skill_analysis, verb_analysis, ats_compatibility,
                 ats_score, jd_match_score, jd_analysis, recommendations, response, previous>>

NextMatch == CallSkillDensity \/ CallDetectVerbs \/ CallSkillOverlap

SpecMatch == InitMatch /\ [][NextMatch]_vars

(***************************************************************************)
(* SpecCompat: check_ats_compatibility called on texts put together from   *)
(* at most MaxLines lines.                                                 *)
(***************************************************************************)
MaxLines == 4

Rep(c, n) == [i \in 1..n |-> c]

\* n one-character words separated by single spaces.
WordsLine(c, n) == [i \in 1..(2 * n - 1) |-> IF i % 2 = 1 THEN c ELSE " "]

\* The lines a text is drawn from, each with what it holds: its words, its
\* box-drawing characters, the case of its letters and its length once
\* trimmed.
CompatLines ==
  { [text |-> <<>>, words |-> 0, boxes |-> 0, letters |-> "none", trimmed |-> 0],
    [text |-> Rep(" ", 16) \o <<"a","a","a","a","box">>,
     words |-> 1, boxes |-> 1, letters |-> "lower", trimmed |-> 5],
    [text |-> Rep("A", 19), words |-> 1, boxes |-> 0, letters |-> "upper", trimmed |-> 19],
    [text |-> Rep("a", 20), words |-> 1, boxes |-> 0, letters |-> "lower", trimmed |-> 20],
    [text |-> WordsLine("A", 50), words |-> 50, boxes |-> 0, letters |-> "upper", trimmed |-> 99],
    [text |-> WordsLine("a", 49), words |-> 49, boxes |-> 0, letters |-> "lower", trimmed |-> 97],
    [text |-> Rep("box", 10), words |-> 1, boxes |-> 10, letters |-> "none", trimmed |-> 10],
    [text |-> WordsLine("A", 1450), words |-> 1450, boxes |-> 0, letters |-> "upper",
     trimmed |-> 2899] }

InitCompat ==
  /\ pc = "compat"
  /\ input_lines \in SeqsUpTo(CompatLines, MaxLines)
  /\ resume_text = Join([i \in 1..Len(input_lines) |-> input_lines[i].text], <<"\n">>)
  /\ jd_text = None
  /\ similarity = 0
  /\ sections = None
  /\ resume_normalized = None
  /\ section_analysis = None
  /\ skill_analysis = None
  /\ verb_analysis = None
  /\ ats_compatibility = None
  /\ ats_score = None
  /\ skill_overlap = None
  /\ jd_match_score = None
  /\ jd_analysis = None
  /\ recommendations = None
  /\ response = None
  /\ previous = None

CallCheckCompatibility ==
  /\ pc = "compat"
  /\ ats_compatibility = None
  /\ ats_compatibility' = Some(check_ats_compatibility(resume_text))
  /\ UNCHANGED <<pc, input_lines, resume_text, jd_text, similarity, sections,
                 resume_normalized, section_analysis, skill_analysis, verb_analysis,
                 ats_score, skill_overlap, jd_match_score, jd_analysis, recommendations,
                 response, previous>>

NextCompat == CallCheckCompatibility

SpecCompat == InitCompat /\ [][NextCompat]_vars

(***************************************************************************)
(* SpecScore: calculate_ats_score and calculate_jd_match called on         *)
(* analysis results of every shape: a section analysis over any subset of  *)
(* ScoreSections, scores over the 0..100 range, a similarity and an        *)
(* overlap percentage in hundredths.  The job-match score is computed as   *)
(* in analyze_resume: when a job description was sent and is not empty.    *)
(***************************************************************************)
\* `has_jd and jd_text`: a job description file was sent and its text is not empty.
\* The job description analysed whenever a file was read, its text empty or not.
HasJobDescriptionFile == jd_text # None

HasJobDescription == jd_text # None /\ Len(Get(jd_text)) > 0

ScoreSections == <<"skills", "education", "projects", "contact">>
SectionScoreValues == {0, 85, 100}
ComponentScoreValues == {0, 95, 100}
PercentageValues == {0, 3333, 10000}

\* The dicts over the names of a list, in the order of the list.
RECURSIVE DictsOver(_, _)
DictsOver(names, values) ==
  IF names = <<>> THEN {<<>>}
  ELSE LET rest == DictsOver(Tail(names), values)
       IN  rest \cup {<<[name |-> Head(names), score |-> v, present |-> v > 0]>> \o d :
                        v \in values, d \in rest}

InitScore ==
  /\ pc = "score"
  /\ input_lines = <<>>
  /\ resume_text = <<>>
  /\ jd_text \in {None} \cup {Some(text) : text \in JdTexts}
  /\ similarity \in (IF HasJobDescription THEN PercentageValues ELSE {0})
  /\ sections = None
  /\ resume_normalized = None
  /\ section_analysis \in {Some(d) : d \in DictsOver(ScoreSections, SectionScoreValues)}
  /\ skill_analysis \in {Some([density_score |-> v]) : v \in ComponentScoreValues}
  /\ verb_analysis \in {Some([verb_score |-> v]) : v \in ComponentScoreValues}
  /\ ats_compatibility \in {Some([score |-> v]) : v \in ComponentScoreValues}
  /\ ats_score = None
  /\ skill_overlap \in (IF HasJobDescription
                        THEN {Some([overlap_percentage |-> v]) : v \in PercentageValues}
                        ELSE {None})
  /\ jd_match_score = None
  /\ jd_analysis = None
  /\ recommendations = None
  /\ response = None
  /\ previous = None

CallCalculateAtsScore ==
  /\ pc = "score"
  /\ ats_score = None
  /\ ats_score' = Some(calculate_ats_score(Get(section_analysis), Get(skill_analysis),
                                           Get(verb_analysis), Get(ats_compatibility)))
  /\ UNCHANGED <<pc, input_lines, resume_text, jd_text, similarity, sections,
                 resume_normalized, section_analysis, skill_analysis, verb_analysis,
                 ats_compatibility, skill_overlap, jd_match_score, jd_analysis, recommendations,
                 response, previous>>

\* app.py:148-162
CallCalculateJdMatch ==
  /\ pc = "score"
  /\ ats_score # None
  /\ HasJobDescription
  /\ jd_match_score = None
  /\ jd_match_score' = Some(calculate_jd_match(similarity, Get(skill_overlap)))
  /\ UNCHANGED <<pc, input_lines, resume_text, jd_text, similarity, sections,
                 resume_normalized, section_analysis, skill_analysis, verb_analysis,
                 ats_compatibility, ats_score, skill_overlap, jd_analysis, recommendations,
                 response, previous>>

NextScore == CallCalculateAtsScore \/ CallCalculateJdMatch

SpecScore == InitScore /\ [][NextScore]_vars

(***************************************************************************)
(* SpecRecs: generate_recommendations called on analysis results drawn     *)
(* from small sets that hold both sides of every threshold of its rules.   *)
(***************************************************************************)
RecSections == <<"skills", "experience", "projects">>
RecSectionScores == {0, 50, 90}
sql == <<"s","q","l">>
aws == <<"a","w","s">>
docker == <<"d","o","c","k","e","r">>
react == <<"r","e","a","c","t">>
redis == <<"r","e","d","i","s">>
python == <<"p","y","t","h","o","n">>

RecCompatibilities ==
  { [score |-> 100, issues |-> <<>>, is_compatible |-> TRUE],
    [score |-> 80, issues |-> <<IssueTooShort>>, is_compatible |-> TRUE],
    [score |-> 55, issues |-> <<IssueShortLines, IssueCaps, IssueTooShort>>,
     is_compatible |-> FALSE] }

RecJdAnalyses ==
  { None,
    Some([overlap_percentage |-> 0, missing_skills |-> <<>>]),
    Some([overlap_percentage |-> 3333, missing_skills |-> <<sql, aws>>]),
    Some([overlap_percentage |-> 10000, missing_skills |-> <<>>]),
    Some([overlap_percentage |-> 4000,
          missing_skills |-> <<sql, aws, docker, react, redis, python>>]) }

InitRecs ==
  /\ pc = "recs"
  /\ input_lines = <<>>
  /\ resume_text = <<>>
  /\ jd_text = None
  /\ similarity = 0
  /\ sections = None
  /\ resume_normalized = None
  /\ section_analysis \in {Some(d) : d \in DictsOver(RecSections, RecSectionScores)}
  /\ skill_analysis \in {Some([skill_count |-> n]) : n \in {4, 5, 9, 10}}
  /\ verb_analysis \in {Some([verb_count |-> n]) : n \in {2, 3, 5, 6}}
  /\ ats_compatibility \in {Some(c) : c \in RecCompatibilities}
  /\ ats_score \in {Some(5999), Some(6000)}
  /\ skill_overlap = None
  /\ jd_match_score = None
  /\ jd_analysis \in RecJdAnalyses
  /\ recommendations = None
  /\ response = None
  /\ previous = None

CallGenerateRecommendations ==
  /\ pc = "recs"
  /\ recommendations = None
  /\ recommendations' = Some(generate_recommendations(
        Get(ats_score), Get(section_analysis), Get(skill_analysis),
        Get(verb_analysis), Get(ats_compatibility), jd_analysis))
  /\ UNCHANGED <<pc, input_lines, resume_text, jd_text, similarity, sections,
                 resume_normalized, section_analysis, skill_analysis, verb_analysis,
                 ats_compatibility, ats_score, skill_overlap, jd_match_score,
                 jd_analysis, response, previous>>

NextRecs == CallGenerateRecommendations

SpecRecs == InitRecs /\ [][NextRecs]_vars

(***************************************************************************)
(* Spec: app.py, analyze_resume from the extracted texts on.  A resume is  *)
(* up to MaxResumeLines lines, each ended by a line break as extract_text  *)
(* ends them; the job description is absent, empty or a short text.  The   *)
(* TF-IDF similarity comes from the library and is a function of the two   *)
(* texts: it is drawn once and stays the same when the server is restarted *)
(* and the same request is handled again.                                  *)
(***************************************************************************)
MaxResumeLines == 2

\* SKILLS
LineSkillsHeader ==
  <<"S","K","I","L","L","S">>
\* Python, Java, SQL, AWS, Docker, React, Node.js, MongoDB, Git, Linux
LineTenSkills ==
  <<"P","y","t","h","o","n",","," ","J","a","v","a",","," ","S","Q","L",","," ","A","W","S",","," ","D","o","c","k","e","r",","," ","R","e","a","c","t",","," ","N","o","d","e",".","j","s",","," ","M","o","n","g","o","D","B",","," ","G","i","t",","," ","L","i","n","u","x">>
\* Developed reporting tools in Python for the finance team
LineDevelopedInPython ==
  <<"D","e","v","e","l","o","p","e","d"," ","r","e","p","o","r","t","i","n","g"," ","t","o","o","l","s"," ","i","n"," ","P","y","t","h","o","n"," ","f","o","r"," ","t","h","e"," ","f","i","n","a","n","c","e"," ","t","e","a","m">>
\* Certifications
LineCertificationsHeader ==
  <<"C","e","r","t","i","f","i","c","a","t","i","o","n","s">>
\* Python, SQL and AWS
JdPythonSqlAws ==
  <<"P","y","t","h","o","n",","," ","S","Q","L"," ","a","n","d"," ","A","W","S">>
ResumeLines ==
  {LineSkillsHeader, LineTenSkills, LineDevelopedInPython, LineCertificationsHeader}

JobDescriptions == {None, Some(<<>>), Some(JdPythonSqlAws)}

SimilarityValues == {0, 4567}

Init ==
  /\ pc = "extracted"
  /\ input_lines = <<>>
  /\ \E lines \in SeqsUpTo(ResumeLines, MaxResumeLines) :
        resume_text = ConcatAll([i \in 1..Len(lines) |-> lines[i] \o <<"\n">>])
  /\ jd_text \in JobDescriptions
  /\ similarity \in IF HasJobDescription THEN SimilarityValues ELSE {0}
  /\ sections = None
  /\ resume_normalized = None
  /\ section_analysis = None
  /\ skill_analysis = None
  /\ verb_analysis = None
  /\ ats_compatibility = None
  /\ ats_score = None
  /\ skill_overlap = None
  /\ jd_match_score = None
  /\ jd_analysis = None
  /\ recommendations = None
  /\ response = None
  /\ previous = None

\* app.py:84-85
CheckResumeText ==
  /\ pc = "extracted"
  /\ IF Len(resume_text) = 0 \/ Len(strip(resume_text)) < 50
     THEN /\ response' = Some([status |-> 400,
                               error |-> "Resume appears to be empty or too short"])
          /\ pc' = "done"
     ELSE /\ pc' = "detect"
          /\ UNCHANGED response
  /\ UNCHANGED <<input_lines, resume_text, jd_text, similarity, sections,
                 resume_normalized, section_analysis, skill_analysis, verb_analysis,
                 ats_compatibility, ats_score, skill_overlap, jd_match_score,
                 jd_analysis, recommendations, previous>>

\* app.py:102-109
DetectSections ==
  /\ pc = "detect"
  /\ LET sections_ == detect_sections(resume_text)
     IN  /\ sections' = Some(sections_)
         /\ section_analysis' = Some(analyze_sections(sections_))
  /\ resume_normalized' = Some(normalize_skills(resume_text))
  /\ pc' = "analyze"
  /\ UNCHANGED <<input_lines, resume_text, jd_text, similarity, skill_analysis,
                 verb_analysis, ats_compatibility, ats_score, skill_overlap,
                 jd_match_score, jd_analysis, recommendations, response, previous>>

\* app.py:112-126
AnalyzeText ==
  /\ pc = "analyze"
  /\ LET skills_ == calculate_skill_density(Get(resume_normalized))
         verbs_ == detect_action_verbs(resume_text)
         compatibility_ == check_ats_compatibility(resume_text)
     IN  /\ skill_analysis' = Some(skills_)
         /\ verb_analysis' = Some(verbs_)
         /\ ats_compatibility' = Some(compatibility_)
         /\ ats_score' = Some(calculate_ats_score(Get(section_analysis), skills_, verbs_,
                                                  compatibility_))
  /\ pc' = "jd"
  /\ UNCHANGED <<input_lines, resume_text, jd_text, similarity, sections,
                 resume_normalized, section_analysis, skill_overlap, jd_match_score,
                 jd_analysis, recommendations, response, previous>>

\* app.py:148-175; list(set) hands out the skills in an order of the set's choosing.
AnalyzeJobDescription ==
  /\ pc = "jd"
  /\ HasJobDescription
  /\ \E result \in find_skill_overlap(Get(resume_normalized), normalize_skills(Get(jd_text))) :
        /\ skill_overlap' = Some(result)
        /\ jd_match_score' = Some(calculate_jd_match(similarity, result))
        /\ jd_analysis' = Some([overlap_percentage |-> result.overlap_percentage,
                                missing_skills |-> result.missing_skills])
  /\ pc' = "feedback"
  /\ UNCHANGED <<input_lines, resume_text, jd_text, similarity, sections,
                 resume_normalized, section_analysis, skill_analysis, verb_analysis,
                 ats_compatibility, ats_score, recommendations, response, previous>>

\* app.py:147-148, the condition false
SkipJobDescription ==
  /\ pc = "jd"
  /\ ~HasJobDescription
  /\ pc' = "feedback"
  /\ UNCHANGED <<input_lines, resume_text, jd_text, similarity, sections,
                 resume_normalized, section_analysis, skill_analysis, verb_analysis,
                 ats_compatibility, ats_score, skill_overlap, jd_match_score,
                 jd_analysis, recommendations, response, previous>>

\* app.py:129-144 and 169-208
Respond ==
  /\ pc = "feedback"
  /\ LET recommendations_ == generate_recommendations(
            Get(ats_score), Get(section_analysis), Get(skill_analysis),
            Get(verb_analysis), Get(ats_compatibility), jd_analysis)
         strengths == identify_strengths(Get(section_analysis), Get(skill_analysis),
                                         Get(verb_analysis), Get(ats_compatibility))
     IN  /\ recommendations' = Some(recommendations_)
         /\ response' = Some(
              [status |-> 200,
               ats_score |-> Get(ats_score),
               sections |-> generate_section_scores(Get(section_analysis)),
               skills |-> [found_skills |-> Get(skill_analysis).found_skills,
                           skill_count |-> Get(skill_analysis).skill_count],
               action_verbs |-> [found_verbs |-> Get(verb_analysis).found_verbs,
                                 verb_count |-> Get(verb_analysis).verb_count],
               ats_compatibility |-> [is_compatible |-> Get(ats_compatibility).is_compatible,
                                      issues |-> Get(ats_compatibility).issues],
               jd_match_score |-> jd_match_score,
               jd_analysis |->
                  IF skill_overlap = None THEN None
                  ELSE Some([tfidf_similarity |-> similarity,
                             matching_skills |-> Get(skill_overlap).matching_skills,
                             missing_skills |-> Get(skill_overlap).missing_skills,
                             overlap_percentage |-> Get(skill_overlap).overlap_percentage]),
               recommendations |-> recommendations_,
               strengths |-> strengths,
               summary |-> generate_summary(Get(ats_score), jd_match_score,
                                            recommendations_, strengths),
               interpretations |-> get_score_interpretation(Get(ats_score), jd_match_score)])
  /\ pc' = "done"
  /\ UNCHANGED <<input_lines, resume_text, jd_text, similarity, sections,
                 resume_normalized, section_analysis, skill_analysis, verb_analysis,
                 ats_compatibility, ats_score, skill_overlap, jd_match_score,
                 jd_analysis, previous>>

\* The server is started anew and the same request is sent again (app.py:230-233):
\* the handler's locals are fresh, the first response is kept for comparison.
RestartServer ==
  /\ pc = "done"
  /\ previous = None
  /\ previous' = response
  /\ pc' = "extracted"
  /\ sections' = None
  /\ resume_normalized' = None
  /\ section_analysis' = None
  /\ skill_analysis' = None
  /\ verb_analysis' = None
  /\ ats_compatibility' = None
  /\ ats_score' = None
  /\ skill_overlap' = None
  /\ jd_match_score' = None
  /\ jd_analysis' = None
  /\ recommendations' = None
  /\ response' = None
  /\ UNCHANGED <<input_lines, resume_text, jd_text, similarity>>

Next ==
  \/ CheckResumeText
  \/ DetectSections
  \/ AnalyzeText
  \/ AnalyzeJobDescription
  \/ SkipJobDescription
  \/ Respond
  \/ RestartServer

Spec == Init /\ [][Next]_vars

(***************************************************************************)
(* SpecSections: detect_sections called on texts of up to MaxSectionLines  *)
(* lines.  A line record tells what the line is: the section whose header  *)
(* it starts with ("" for none), whether a colon ends the header, and      *)
(* whether the header stands alone on the line.  The text is the lines     *)
(* joined by line breaks, so a last line has no line break behind it and a *)
(* last blank line gives the text a final line break.                      *)
(***************************************************************************)
MaxSectionLines == 4

SectionLines ==
  {
    [text |-> <<"S","k","i","l","l","s">>,
     header |-> "skills", colon |-> FALSE, alone |-> TRUE],  \* Skills
    [text |-> <<" "," ","S","K","I","L","L","S",":">>,
     header |-> "skills", colon |-> TRUE, alone |-> TRUE],  \*   SKILLS:
    [text |-> <<"E","d","u","c","a","t","i","o","n">>,
     header |-> "education", colon |-> FALSE, alone |-> TRUE],  \* Education
    [text |-> <<"P","y","t","h","o","n",","," ","J","a","v","a">>,
     header |-> "", colon |-> FALSE, alone |-> FALSE],  \* Python, Java
    [text |-> <<"B","S","c"," ","P","h","y","s","i","c","s">>,
     header |-> "", colon |-> FALSE, alone |-> FALSE],  \* BSc Physics
    [text |-> <<>>,
     header |-> "", colon |-> FALSE, alone |-> FALSE],  \* (blank line)
    [text |-> <<"S","k","i","l","l","s",":"," ","S","Q","L">>,
     header |-> "skills", colon |-> TRUE, alone |-> FALSE],  \* Skills: SQL
    [text |-> <<"M","y"," ","s","k","i","l","l","s",":">>,
     header |-> "", colon |-> FALSE, alone |-> FALSE]  \* My skills:
  }

InitSections ==
  /\ pc = "sections"
  /\ input_lines \in SeqsUpTo(SectionLines, MaxSectionLines)
  /\ resume_text = Join([i \in 1..Len(input_lines) |-> input_lines[i].text], <<"\n">>)
  /\ jd_text = None
  /\ similarity = 0
  /\ sections = None
  /\ resume_normalized = None
  /\ section_analysis = None
  /\ skill_analysis = None
  /\ verb_analysis = None
  /\ ats_compatibility = None
  /\ ats_score = None
  /\ skill_overlap = None
  /\ jd_match_score = None
  /\ jd_analysis = None
  /\ recommendations = None
  /\ response = None
  /\ previous = None

CallDetectSections ==
  /\ pc = "sections"
  /\ sections = None
  /\ sections' = Some(detect_sections(resume_text))
  /\ UNCHANGED <<pc, input_lines, resume_text, jd_text, similarity, resume_normalized,
                 section_analysis, skill_analysis, verb_analysis, ats_compatibility,
                 ats_score, skill_overlap, jd_match_score, jd_analysis, recommendations,
                 response, previous>>

NextSections == CallDetectSections

SpecSections == InitSections /\ [][NextSections]_vars

(***************************************************************************)
(* SpecAnalyze: analyze_sections called on dicts of sections.  A content   *)
(* record tells what its text holds: the number of words, of the item      *)
(* separators (comma, line break, bullet, hyphen), of the characters left  *)
(* after trimming, and of the characters that are not whitespace.  The     *)
(* contents hold both sides of every threshold of the function.            *)
(***************************************************************************)
\* n one-letter words with single spaces between them.
WordsContent(n) ==
  [text |-> WordsLine("w", n), words |-> n, separators |-> 0,
   trimmed |-> 2 * n - 1, nonspace |-> n]

AnalyzedContents ==
  {
    [text |-> <<>>,
     words |-> 0, separators |-> 0, trimmed |-> 0, nonspace |-> 0],
    [text |-> <<" "," "," "," "," "," "," "," "," "," "," "," ">>,
     words |-> 0, separators |-> 0, trimmed |-> 0, nonspace |-> 0],
    [text |-> <<"a"," ","b"," ","c"," ","d"," ","e"," ","f">>,
     words |-> 6, separators |-> 0, trimmed |-> 11, nonspace |-> 6],
    [text |-> <<"a","b","c","d","e","f","g","h","i","j">>,
     words |-> 1, separators |-> 0, trimmed |-> 10, nonspace |-> 10],
    [text |-> <<"a","b","c","d","e","f","g","h","i","j","k">>,
     words |-> 1, separators |-> 0, trimmed |-> 11, nonspace |-> 11],
    [text |-> <<" "," ","a","b","c","d","e","f","g","h","i"," "," ">>,
     words |-> 1, separators |-> 0, trimmed |-> 9, nonspace |-> 9],
    [text |-> <<"P","y","t","h","o","n",","," ","J","a","v","a",","," ","S","Q","L",","," ","A","W","S",","," ","D","o","c","k","e","r",","," ","R","e","a","c","t",","," ","N","o","d","e",".","j","s",","," ","M","o","n","g","o","D","B",","," ","G","i","t",","," ","L","i","n","u","x">>,
     words |-> 10, separators |-> 9, trimmed |-> 67, nonspace |-> 58],
    [text |-> <<"P","y","t","h","o","n",","," ","J","a","v","a",","," ","S","Q","L",","," ","G","i","t",","," ","B","a","s","h">>,
     words |-> 5, separators |-> 4, trimmed |-> 28, nonspace |-> 24],
    [text |-> <<"P","y","t","h","o","n",","," ","J","a","v","a",","," ","S","Q","L",","," ","G","i","t">>,
     words |-> 4, separators |-> 3, trimmed |-> 22, nonspace |-> 19],
    [text |-> <<"bullet"," ","P","y","t","h","o","n","\n","bullet"," ","J","a","v","a","\n","-"," ","S","Q","L">>,
     words |-> 6, separators |-> 5, trimmed |-> 21, nonspace |-> 16]
  } \cup {WordsContent(n) : n \in {19, 20, 49, 50, 99, 100}}

AnalyzedNames ==
  { <<>>,
    <<"skills", "education">>,
    <<"experience", "internships">>,
    <<"projects", "achievements">>,
    <<"objective", "contact">>,
    <<"summary", "certifications", "skills">> }

InitAnalyze ==
  /\ pc = "analyze_sections"
  /\ \E names \in AnalyzedNames :
       input_lines \in [1..Len(names) -> AnalyzedContents]
       /\ sections = Some([i \in 1..Len(names) |->
                             [name |-> names[i], content |-> input_lines[i].text]])
  /\ resume_text = <<>>
  /\ jd_text = None
  /\ similarity = 0
  /\ resume_normalized = None
  /\ section_analysis = None
  /\ skill_analysis = None
  /\ verb_analysis = None
  /\ ats_compatibility = None
  /\ ats_score = None
  /\ skill_overlap = None
  /\ jd_match_score = None
  /\ jd_analysis = None
  /\ recommendations = None
  /\ response = None
  /\ previous = None

CallAnalyzeSections ==
  /\ pc = "analyze_sections"
  /\ section_analysis = None
  /\ section_analysis' = Some(analyze_sections(Get(sections)))
  /\ UNCHANGED <<pc, input_lines, resume_text, jd_text, similarity, sections,
                 resume_normalized, skill_analysis, verb_analysis, ats_compatibility,
                 ats_score, skill_overlap, jd_match_score, jd_analysis, recommendations,
                 response, previous>>

NextAnalyze == CallAnalyzeSections

SpecAnalyze == InitAnalyze /\ [][NextAnalyze]_vars

(***************************************************************************)
(* SpecSummary: the feedback part of analyze_resume (app.py:178-202)       *)
(* called on analysis results drawn from small sets: the critical sections *)
(* present or absent in any combination, both sides of the thresholds of   *)
(* the summary sentences, a job match score of 0 included.                 *)
(***************************************************************************)
InitSummary ==
  /\ pc = "summary"
  /\ input_lines = <<>>
  /\ resume_text = <<>>
  /\ jd_text = None
  /\ similarity = 0
  /\ sections = None
  /\ resume_normalized = None
  /\ section_analysis \in {Some(d) : d \in DictsOver(critical_sections, {0, 59, 80})}
  /\ skill_analysis \in {Some([skill_count |-> n]) : n \in {4, 5, 9, 10}}
  /\ verb_analysis \in {Some([verb_count |-> n]) : n \in {5, 6, 8}}
  /\ ats_compatibility \in {Some(c) : c \in RecCompatibilities
                               \cup {[score |-> 90, issues |-> <<IssueCaps>>,
                                      is_compatible |-> TRUE]}}
  /\ ats_score \in {Some(v) : v \in {5999, 6000, 7499, 7500}}
  /\ skill_overlap = None
  /\ jd_analysis \in {None,
                      Some([overlap_percentage |-> 3333, missing_skills |-> <<sql, aws>>]),
                      Some([overlap_percentage |-> 10000, missing_skills |-> <<>>])}
  /\ jd_match_score \in (IF jd_analysis = None THEN {None}
                         ELSE {Some(v) : v \in {0, 4999, 5000, 6999, 7000}})
  /\ recommendations = None
  /\ response = None
  /\ previous = None

\* app.py:178-202
CallGenerateSummary ==
  /\ pc = "summary"
  /\ response = None
  /\ LET recommendations_ == generate_recommendations(
            Get(ats_score), Get(section_analysis), Get(skill_analysis),
            Get(verb_analysis), Get(ats_compatibility), jd_analysis)
         strengths == identify_strengths(Get(section_analysis), Get(skill_analysis),
                                         Get(verb_analysis), Get(ats_compatibility))
     IN  /\ recommendations' = Some(recommendations_)
         /\ response' = Some([strengths |-> strengths,
                              summary |-> generate_summary(Get(ats_score), jd_match_score,
                                                           recommendations_, strengths)])
  /\ UNCHANGED <<pc, input_lines, resume_text, jd_text, similarity, sections,
                 resume_normalized, section_analysis, skill_analysis, verb_analysis,
                 ats_compatibility, ats_score, skill_overlap, jd_match_score, jd_analysis,
                 previous>>

NextSummary == CallGenerateSummary

SpecSummary == InitSummary /\ [][NextSummary]_vars

(***************************************************************************)
(* Claims checked under SpecMatch.                                         *)
(***************************************************************************)
java == <<"j","a","v","a">>
javascript == <<"j","a","v","a","s","c","r","i","p","t">>
swift == <<"s","w","i","f","t">>
TextJavascripting == <<"j","a","v","a","s","c","r","i","p","t","i","n","g">>
TextIUsedJava == <<"I"," ","u","s","e","d"," ","J","a","v","a",".">>

\* The term occurs in the text t with a non-word character or the text
\* boundary on both sides.
OccursDelimited(term, t) ==
  \E i \in 1..Len(t) :
    /\ OccursAt(term, t, i)
    /\ (i = 1 \/ ~IsWordChar(t[i - 1]))
    /\ (i + Len(term) - 1 = Len(t) \/ ~IsWordChar(t[i + Len(term)]))

\* C4 (as claimed): calculate_skill_density reports each matched skill once,
\* skill_count is the number of distinct vocabulary skills in the text and
\* the density bucket is taken on that distinct count.
C4_FoundSkillsDistinct ==
  skill_analysis # None =>
    LET r == Get(skill_analysis)
        distinct == Cardinality(SkillsIn(lower(resume_text)))
    IN  /\ \A i, j \in 1..Len(r.found_skills) :
              r.found_skills[i] = r.found_skills[j] => i = j
        /\ r.skill_count = distinct
        /\ r.density_score = DensityScore(distinct)

\* C6: in calculate_skill_density, detect_action_verbs and find_skill_overlap
\* a vocabulary term is reported exactly when it occurs in the text,
\* case-insensitively, delimited on both sides by a non-word character or the
\* text boundary; "javascripting" does not yield javascript and
\* "I used Java." yields java.
C6_WholeWordMatching ==
  LET rt == lower(resume_text)
  IN  /\ skill_analysis # None =>
           /\ \A s \in AllSkillSet :
                 s \in Range(Get(skill_analysis).found_skills) <=> OccursDelimited(s, rt)
           /\ resume_text = TextJavascripting => Get(skill_analysis).found_skills = <<>>
           /\ resume_text = TextIUsedJava => Get(skill_analysis).found_skills = <<java>>
      /\ verb_analysis # None =>
           \A v \in Range(ACTION_VERBS) :
              v \in Range(Get(verb_analysis).found_verbs) <=> OccursDelimited(v, rt)
      /\ skill_overlap # None =>
           /\ Get(skill_overlap).resume_skills =
                {s \in AllSkillSet : OccursDelimited(s, rt)}
           /\ Get(skill_overlap).jd_skills =
                {s \in AllSkillSet : OccursDelimited(s, lower(Get(jd_text)))}

C6_Witness ==
  /\ skill_overlap # None
  /\ resume_text = TextIUsedJava \o <<" ">> \o TextJavascripting
  /\ Get(skill_analysis).found_skills = <<java>>
  /\ Get(skill_overlap).resume_skills = {java}
  /\ Get(jd_text) = TextJavascripting
  /\ Get(skill_overlap).jd_skills = {}

\* C7: overlap_percentage is |matching| / |jd skills| x 100 rounded to two
\* decimals, and 0 when the job description holds no skill; matching is the
\* resume skills that are jd skills, missing the jd skills that are not
\* resume skills, so the two are disjoint and together are the jd skills.
C7_OverlapPercentage ==
  skill_overlap # None =>
    LET r == Get(skill_overlap)
        n == Cardinality(r.jd_skills)
        m == Len(r.matching_skills)
        d == r.overlap_percentage * n - 10000 * m
    IN  /\ n > 0 => (2 * d <= n /\ -2 * d <= n)
        /\ n = 0 => r.overlap_percentage = 0
        /\ Range(r.matching_skills) = r.resume_skills \cap r.jd_skills
        /\ Range(r.missing_skills) = r.jd_skills \ r.resume_skills
        /\ Range(r.matching_skills) \cap Range(r.missing_skills) = {}
        /\ Range(r.matching_skills) \cup Range(r.missing_skills) = r.jd_skills
        /\ m = Cardinality(Range(r.matching_skills))
        /\ Len(r.missing_skills) = Cardinality(Range(r.missing_skills))

C7_Witness ==
  /\ skill_overlap # None
  /\ Cardinality(Get(skill_overlap).jd_skills) = 3
  /\ Len(Get(skill_overlap).matching_skills) = 1
  /\ Len(Get(skill_overlap).missing_skills) = 2
  /\ Get(skill_overlap).overlap_percentage = 3333

C7_WitnessNoJdSkills ==
  /\ skill_overlap # None
  /\ Get(skill_overlap).jd_skills = {}
  /\ Get(skill_overlap).resume_skills # {}
  /\ Get(skill_overlap).overlap_percentage = 0

(***************************************************************************)
(* Claims checked under SpecCompat.  What the text holds is read off the   *)
(* lines it was put together from.                                         *)
(***************************************************************************)
InputWords == SumSeq([i \in 1..Len(input_lines) |-> input_lines[i].words])
InputBoxes == SumSeq([i \in 1..Len(input_lines) |-> input_lines[i].boxes])
InputAllUpper ==
  /\ \E i \in 1..Len(input_lines) : input_lines[i].letters = "upper"
  /\ \A i \in 1..Len(input_lines) : input_lines[i].letters # "lower"
InputShortLines ==
  Cardinality({i \in 1..Len(input_lines) :
     input_lines[i].trimmed > 0 /\ input_lines[i].trimmed < 20})
InputNonEmptyLines ==
  Cardinality({i \in 1..Len(input_lines) : input_lines[i].trimmed > 0})
\* ''.split('\n') is one empty line.
InputLineCount == Max(1, Len(input_lines))

Penalty(issue) ==
  CASE issue = IssueTable -> 20
    [] issue = IssueShortLines -> 15
    [] issue = IssueCaps -> 10
    [] issue = IssueTooShort -> 20
    [] issue = IssueTooLong -> 10

\* C8: the score is max(0, 100 - the penalties of the triggered checks), with
\* 20 for more than 10 box-drawing characters, 15 for short lines, 10 for an
\* all-upper-case text and either 20 for fewer than 100 words or 10 for more
\* than 1500, never both; is_compatible is true iff the score is >= 70 and
\* issues holds one entry per triggered check in check order; an
\* all-upper-case text of 50 words with no other trigger scores 70 and is
\* compatible.
C8_CompatibilityScore ==
  ats_compatibility # None =>
    LET r == Get(ats_compatibility)
        short == IssueShortLines \in Range(r.issues)
        expected == (IF InputBoxes > 10 THEN <<IssueTable>> ELSE <<>>)
                    \o (IF short THEN <<IssueShortLines>> ELSE <<>>)
                    \o (IF InputAllUpper THEN <<IssueCaps>> ELSE <<>>)
                    \o (IF InputWords < 100 THEN <<IssueTooShort>> ELSE <<>>)
                    \o (IF InputWords > 1500 THEN <<IssueTooLong>> ELSE <<>>)
    IN  /\ r.issues = expected
        /\ r.score = Max(0, 100 - SumSeq([i \in 1..Len(expected) |-> Penalty(expected[i])]))
        /\ r.is_compatible = (r.score >= 70)
        /\ ~(IssueTooShort \in Range(r.issues) /\ IssueTooLong \in Range(r.issues))
        /\ (InputAllUpper /\ InputWords = 50 /\ InputBoxes <= 10 /\ ~short)
              => (r.score = 70 /\ r.is_compatible)

C8_Witness ==
  /\ ats_compatibility # None
  /\ input_lines = <<[text |-> WordsLine("A", 50), words |-> 50, boxes |-> 0,
                      letters |-> "upper", trimmed |-> 99]>>
  /\ Get(ats_compatibility).issues = <<IssueCaps, IssueTooShort>>
  /\ Get(ats_compatibility).score = 70
  /\ Get(ats_compatibility).is_compatible

C8_WitnessBelow70 ==
  /\ ats_compatibility # None
  /\ Get(ats_compatibility).score = 65
  /\ ~Get(ats_compatibility).is_compatible

C8_WitnessTooLong ==
  /\ ats_compatibility # None
  /\ Get(ats_compatibility).issues = <<IssueTable, IssueShortLines, IssueCaps, IssueTooLong>>
  /\ Get(ats_compatibility).score = 45

\* C9 (as claimed): the short-lines penalty is applied exactly when more than
\* 30% of the non-empty lines are shorter than 20 characters after trimming.
C9_ShortLinesOverNonEmptyLines ==
  ats_compatibility # None =>
    (IssueShortLines \in Range(Get(ats_compatibility).issues)
       <=> 10 * InputShortLines > 3 * InputNonEmptyLines)

\* C9 (amended): the short-lines penalty of 15 is applied exactly when the
\* number of non-empty lines shorter than 20 characters after trimming
\* exceeds 30% of the number of all lines of the text, the blank ones
\* included.
C9_ShortLinesOverAllLines ==
  ats_compatibility # None =>
    LET r == Get(ats_compatibility)
        others == SelectSeq(r.issues, LAMBDA issue : issue # IssueShortLines)
        rest == 100 - SumSeq([i \in 1..Len(others) |-> Penalty(others[i])])
        triggered == 10 * InputShortLines > 3 * InputLineCount
    IN  /\ IssueShortLines \in Range(r.issues) <=> triggered
        /\ r.score = (IF triggered THEN rest - 15 ELSE rest)

\* Half of the non-empty lines are short, a quarter of all lines: no penalty.
C9_Witness ==
  /\ ats_compatibility # None
  /\ Len(input_lines) = 4
  /\ InputShortLines = 1
  /\ InputNonEmptyLines = 2
  /\ IssueShortLines \notin Range(Get(ats_compatibility).issues)

(***************************************************************************)
(* Claims checked under SpecScore.                                         *)
(***************************************************************************)
\* C1: the ATS score lies in [0, 100], also for a section analysis over a
\* subset of the section names, and the job-match score, when computed, lies
\* in [0, 100] (scores in hundredths).
C1_ScoresInRange ==
  /\ ats_score # None => (0 <= Get(ats_score) /\ Get(ats_score) <= 10000)
  /\ jd_match_score # None => (0 <= Get(jd_match_score) /\ Get(jd_match_score) <= 10000)

\* Both bounds are met: the highest scores on a subset of the sections, and
\* a highest job match.
C1_Witness ==
  /\ ats_score = Some(10000)
  /\ Keys(Get(section_analysis)) = {"skills", "contact"}
  /\ jd_match_score = Some(10000)

C1_WitnessZero ==
  /\ ats_score = Some(0)
  /\ Get(section_analysis) = <<>>
  /\ jd_match_score = Some(0)

\* The weight the section completeness gives a section.
CompletenessWeight(name) ==
  IF name \in {"skills", "education", "experience"} THEN 10
  ELSE IF name \in {"objective", "summary", "projects"} THEN 5
  ELSE 2

Abs(x) == IF x < 0 THEN -x ELSE x

\* C13: the ATS score is 0.30*C + 0.25*density + 0.20*verbs + 0.25*compatibility
\* rounded to the nearest hundredth, C being the mean of the section scores
\* weighted 10 for skills, education, experience, 5 for objective, summary,
\* projects and 2 for the others, and 0 for an analysis without sections.
C13_AtsScoreFormula ==
  ats_score # None =>
    LET analysis == Get(section_analysis)
        weights == SumSeq([i \in 1..Len(analysis) |-> CompletenessWeight(analysis[i].name)])
        weighted == SumSeq([i \in 1..Len(analysis) |->
                              analysis[i].score * CompletenessWeight(analysis[i].name)])
        others == 25 * Get(skill_analysis).density_score + 20 * Get(verb_analysis).verb_score
                    + 25 * Get(ats_compatibility).score
    IN  /\ \A i \in 1..Len(analysis) : ~analysis[i].present => analysis[i].score = 0
        /\ IF Len(analysis) = 0 THEN Get(ats_score) = others
           ELSE 2 * Abs(Get(ats_score) * weights - (30 * weighted + others * weights))
                  <= weights

\* A section of each weight, with different scores: (10*100 + 5*85 + 2*0) / 17
\* = 83.82..., and 0.30 of it with 95, 100 and 0 for the others is 68.90.
C13_Witness ==
  /\ ats_score = Some(6890)
  /\ Len(Get(section_analysis)) = 3
  /\ At(Get(section_analysis), "skills").score = 100
  /\ At(Get(section_analysis), "projects").score = 85
  /\ At(Get(section_analysis), "contact").score = 0
  /\ Get(skill_analysis).density_score = 95
  /\ Get(verb_analysis).verb_score = 100
  /\ Get(ats_compatibility).score = 0

\* An analysis without sections: C = 0.
C13_WitnessNoSections ==
  /\ ats_score = Some(4875)
  /\ Get(section_analysis) = <<>>
  /\ Get(skill_analysis).density_score = 95
  /\ Get(verb_analysis).verb_score = 0
  /\ Get(ats_compatibility).score = 100

\* C14: the job-match score is 0.60*similarity + 0.40*overlap rounded to the
\* nearest hundredth, and there is one only when a job description was supplied.
C14_JdMatchFormula ==
  /\ jd_match_score # None =>
       /\ jd_text # None
       /\ 2 * Abs(100 * Get(jd_match_score)
                    - (60 * similarity + 40 * Get(skill_overlap).overlap_percentage)) <= 100
  /\ jd_text = None => jd_match_score = None

\* 0.60 * 33.33 + 0.40 * 0 = 19.998, rounded to 20.00.
C14_Witness ==
  /\ jd_match_score = Some(2000)
  /\ similarity = 3333
  /\ Get(skill_overlap).overlap_percentage = 0

\* No job description: the ATS score is there and no job-match score.
C14_WitnessNoJobDescription ==
  /\ jd_text = None
  /\ ats_score # None
  /\ jd_match_score = None

(***************************************************************************)
(* Claims checked under SpecRecs.                                          *)
(***************************************************************************)
\* The place of a recommendation's rule in the order of generation.
RuleIndex(rec) ==
  CASE rec.category = "missing_section" -> (IF rec.priority = "critical" THEN 1 ELSE 2)
    [] rec.category = "skills" -> 3
    [] rec.category = "action_verbs" -> 4
    [] rec.category = "ats_compatibility" -> 5
    [] rec.category = "section_quality" -> 6
    [] rec.category = "jd_match" -> 7
    [] rec.category = "general" -> 8

GeneratedRecs ==
  RecommendationRules(Get(ats_score), Get(section_analysis), Get(skill_analysis),
                      Get(verb_analysis), Get(ats_compatibility), jd_analysis)

\* C10: the returned list is ordered by priority rank (critical, important,
\* suggested, anything else); within one priority the recommendations keep
\* the order in which the rules generated them; the sort neither adds, drops
\* nor merges recommendations.
C10_StableOrderByPriority ==
  recommendations # None =>
    LET recs == Get(recommendations)
    IN  /\ \A i, j \in 1..Len(recs) :
              i < j => /\ PriorityRank(recs[i].priority) <= PriorityRank(recs[j].priority)
                       /\ recs[i].priority = recs[j].priority
                            => RuleIndex(recs[i]) <= RuleIndex(recs[j])
        /\ \A p \in {"critical", "important", "suggested"} :
              SelectSeq(recs, LAMBDA r : r.priority = p)
                = SelectSeq(GeneratedRecs, LAMBDA r : r.priority = p)
        /\ \A i \in 1..Len(recs) : recs[i].priority \in {"critical", "important", "suggested"}
        /\ Len(recs) = Len(GeneratedRecs)

\* The sort moved something: a critical job-match recommendation generated
\* behind important ones stands before them, and the important tier holds
\* recommendations of several rules in generation order.
C10_Witness ==
  /\ recommendations # None
  /\ Get(recommendations) # GeneratedRecs
  /\ \E i, j, k \in 1..Len(Get(recommendations)) :
        /\ i < j /\ j < k
        /\ Get(recommendations)[i].category = "jd_match"
        /\ Get(recommendations)[i].priority = "critical"
        /\ Get(recommendations)[j].category = "missing_section"
        /\ Get(recommendations)[j].priority = "important"
        /\ Get(recommendations)[k].category = "ats_compatibility"
  /\ Get(recommendations)[Len(Get(recommendations))].priority = "suggested"

\* The recommendations of a category, and those of a category and priority.
RecsOf(category) == SelectSeq(Get(recommendations), LAMBDA r : r.category = category)

RecsOfPriority(category, priority) ==
  SelectSeq(Get(recommendations), LAMBDA r : r.category = category /\ r.priority = priority)

\* C16: one 'skills' recommendation when the skill count is below 10, critical
\* below 5 and important from 5 to 9, none from 10 on; one 'action_verbs'
\* recommendation when the verb count is below 6, important below 3 and
\* suggested from 3 to 5, none from 6 on; for an analysis of any subset of
\* the sections, so the list is not empty when a count is below its threshold.
C16_SkillAndVerbRecommendations ==
  recommendations # None =>
    LET skill_count == Get(skill_analysis).skill_count
        verb_count == Get(verb_analysis).verb_count
    IN  /\ Len(RecsOf("skills")) = IF skill_count < 10 THEN 1 ELSE 0
        /\ Len(RecsOfPriority("skills", "critical")) = IF skill_count < 5 THEN 1 ELSE 0
        /\ Len(RecsOfPriority("skills", "important"))
             = IF skill_count >= 5 /\ skill_count < 10 THEN 1 ELSE 0
        /\ Len(RecsOf("action_verbs")) = IF verb_count < 6 THEN 1 ELSE 0
        /\ Len(RecsOfPriority("action_verbs", "important")) = IF verb_count < 3 THEN 1 ELSE 0
        /\ Len(RecsOfPriority("action_verbs", "suggested"))
             = IF verb_count >= 3 /\ verb_count < 6 THEN 1 ELSE 0
        /\ (skill_count < 10 \/ verb_count < 6) => Len(Get(recommendations)) > 0

\* An analysis without sections, 5 skills and 5 verbs: an important 'skills'
\* and a suggested 'action_verbs' recommendation.
C16_Witness ==
  /\ recommendations # None
  /\ Get(section_analysis) = <<>>
  /\ Get(skill_analysis).skill_count = 5
  /\ Get(verb_analysis).verb_count = 5
  /\ Len(RecsOfPriority("skills", "important")) = 1
  /\ Len(RecsOfPriority("action_verbs", "suggested")) = 1

\* 10 skills and 6 verbs: neither recommendation.
C16_WitnessNone ==
  /\ recommendations # None
  /\ Get(skill_analysis).skill_count = 10
  /\ Get(verb_analysis).verb_count = 6
  /\ RecsOf("skills") = <<>>
  /\ RecsOf("action_verbs") = <<>>

\* C17: with a job-description analysis there is one critical/jd_match
\* recommendation iff skills are missing, its message listing the first
\* min(5, number missing) of them in the order of the list, and one
\* important/jd_match recommendation iff the overlap is below 40; without a
\* job-description analysis there is no jd_match recommendation.
C17_JdMatchRecommendations ==
  recommendations # None =>
    IF jd_analysis = None THEN RecsOf("jd_match") = <<>>
    ELSE LET missing == Get(jd_analysis).missing_skills
             named == IF Len(missing) < 5 THEN Len(missing) ELSE 5
             critical == RecsOfPriority("jd_match", "critical")
         IN  /\ Len(critical) = IF Len(missing) > 0 THEN 1 ELSE 0
             /\ Len(missing) > 0 =>
                  /\ critical[1].message.text = "Add these job-relevant skills if you have them: "
                  /\ Len(critical[1].message.skills) = named
                  /\ \A i \in 1..named : critical[1].message.skills[i] = missing[i]
             /\ Len(RecsOfPriority("jd_match", "important"))
                  = IF Get(jd_analysis).overlap_percentage < 4000 THEN 1 ELSE 0
             /\ Len(RecsOf("jd_match")) = Len(critical) + Len(RecsOfPriority("jd_match", "important"))

\* Six skills missing at an overlap of 40: the critical recommendation names
\* the first five, and there is no important one.
C17_Witness ==
  /\ recommendations # None
  /\ jd_analysis # None
  /\ Len(Get(jd_analysis).missing_skills) = 6
  /\ Get(jd_analysis).overlap_percentage = 4000
  /\ Len(RecsOf("jd_match")) = 1
  /\ RecsOf("jd_match")[1].message.skills = <<sql, aws, docker, react, redis>>

\* Nothing missing at an overlap of 0: the important recommendation alone.
C17_WitnessImportantOnly ==
  /\ recommendations # None
  /\ jd_analysis # None
  /\ Get(jd_analysis).missing_skills = <<>>
  /\ Get(jd_analysis).overlap_percentage = 0
  /\ Len(RecsOf("jd_match")) = 1
  /\ RecsOf("jd_match")[1].priority = "important"

(***************************************************************************)
(* Claims checked under SpecSections.  What the text holds is read off the *)
(* line records.                                                           *)
(***************************************************************************)
\* Line i starts with a header that the text ends by a colon or a line break.
IsHeaderLine(i) ==
  /\ input_lines[i].header # ""
  /\ input_lines[i].colon \/ i < Len(input_lines)

\* The header lines of a section, and the last of them.
HeaderLinesOf(name) == {i \in 1..Len(input_lines) : IsHeaderLine(i) /\ input_lines[i].header = name}

LastHeaderLineOf(name) == CHOOSE i \in HeaderLinesOf(name) : \A j \in HeaderLinesOf(name) : j <= i

\* The trimmed text of the lines behind header line i up to the next header line.
ContentBehind(i) ==
  LET later == {j \in (i + 1)..Len(input_lines) : IsHeaderLine(j)}
      stop == IF later = {} THEN Len(input_lines) + 1
              ELSE CHOOSE j \in later : \A k \in later : j <= k
  IN  strip(Join([k \in 1..(stop - i - 1) |-> input_lines[i + k].text], <<"\n">>))

\* C11: when the header of a section matches several times, the section holds
\* the content behind the last match only, whatever it is (the empty content
\* included), and the content behind an earlier match is in no section unless
\* it is the content behind the last match of some section.
C11_LastMatchWins ==
  sections # None =>
    \A name \in Range(SectionNames) :
      Cardinality(HeaderLinesOf(name)) > 1 =>
        /\ At(Get(sections), name).content = ContentBehind(LastHeaderLineOf(name))
        /\ \A i \in HeaderLinesOf(name) \ {LastHeaderLineOf(name)} :
              \A k \in 1..Len(Get(sections)) :
                 Get(sections)[k].content = ContentBehind(i) =>
                    \/ ContentBehind(i) = <<>>
                    \/ /\ HeaderLinesOf(Get(sections)[k].name) # {}
                       /\ ContentBehind(LastHeaderLineOf(Get(sections)[k].name)) = ContentBehind(i)

\* Two skills headers with different content behind them: the second content
\* is kept and the first is in no section.
C11_Witness ==
  /\ sections # None
  /\ Cardinality(HeaderLinesOf("skills")) = 2
  /\ LET first == CHOOSE i \in HeaderLinesOf("skills") : i # LastHeaderLineOf("skills")
     IN  /\ ContentBehind(first) # <<>>
         /\ ContentBehind(LastHeaderLineOf("skills")) # <<>>
         /\ ContentBehind(first) # ContentBehind(LastHeaderLineOf("skills"))
         /\ At(Get(sections), "skills").content = ContentBehind(LastHeaderLineOf("skills"))
         /\ \A k \in 1..Len(Get(sections)) : Get(sections)[k].content # ContentBehind(first)

\* Two skills headers, nothing behind the second: the section is empty.
C11_WitnessEmptyLast ==
  /\ sections # None
  /\ Cardinality(HeaderLinesOf("skills")) = 2
  /\ ContentBehind(LastHeaderLineOf("skills")) = <<>>
  /\ \E i \in HeaderLinesOf("skills") : ContentBehind(i) # <<>>
  /\ At(Get(sections), "skills").content = <<>>

\* Every header of the text stands alone on its line, and no section has two.
HeadersAloneAndDistinct ==
  /\ \A i \in 1..Len(input_lines) : input_lines[i].header # "" => input_lines[i].alone
  /\ \A name \in Range(SectionNames) : Cardinality(HeaderLinesOf(name)) <= 1

\* C12: detect_sections returns all 10 section names; when the headers of
\* distinct sections each stand alone on a line, a section whose header occurs
\* holds the trimmed text from behind its header line up to the next header
\* (the end of the text for the last one), and every other section is empty.
C12_SectionContents ==
  sections # None =>
    /\ Len(Get(sections)) = 10
    /\ [i \in 1..10 |-> Get(sections)[i].name] = SectionNames
    /\ HeadersAloneAndDistinct =>
         \A name \in Range(SectionNames) :
            At(Get(sections), name).content =
               IF HeaderLinesOf(name) = {} THEN <<>>
               ELSE ContentBehind(LastHeaderLineOf(name))

\* A skills header and an education header, each with content behind it.
C12_Witness ==
  /\ sections # None
  /\ HeadersAloneAndDistinct
  /\ HeaderLinesOf("skills") # {} /\ HeaderLinesOf("education") # {}
  /\ At(Get(sections), "skills").content # <<>>
  /\ At(Get(sections), "education").content # <<>>
  /\ At(Get(sections), "skills").content # At(Get(sections), "education").content

\* A header as the last line, without a colon or a line break behind it, is
\* no header: its section stays empty.
C12_WitnessUnendedHeader ==
  /\ sections # None
  /\ Len(input_lines) > 1
  /\ input_lines[Len(input_lines)].header = "education"
  /\ ~IsHeaderLine(Len(input_lines))
  /\ HeaderLinesOf("education") = {}
  /\ At(Get(sections), "education").content = <<>>

(***************************************************************************)
(* Claims checked under SpecAnalyze.  What a content holds is read off its *)
(* content record.                                                         *)
(***************************************************************************)
\* The score of the table for a section that is present.
TableScore(name, content) ==
  IF name = "skills"
  THEN (IF content.separators + 1 >= 10 THEN 90
        ELSE IF content.separators + 1 >= 5 THEN 70 ELSE 50)
  ELSE IF name \in {"experience", "internships"}
  THEN (IF content.words >= 100 THEN 90 ELSE IF content.words >= 50 THEN 70 ELSE 50)
  ELSE IF name = "education" THEN (IF content.words >= 20 THEN 85 ELSE 60)
  ELSE IF name \in {"projects", "achievements"} THEN (IF content.words >= 50 THEN 85 ELSE 60)
  ELSE (IF content.words >= 20 THEN 70 ELSE 50)

\* The analysis holds one record per section, in the order of the sections.
OneRecordPerSection ==
  /\ Len(Get(section_analysis)) = Len(Get(sections))
  /\ \A i \in 1..Len(Get(sections)) : Get(section_analysis)[i].name = Get(sections)[i].name

\* A record agrees with the table for a section that is present or absent as told.
RecordAsTable(i, present) ==
  LET record == Get(section_analysis)[i]
  IN  /\ record.present = present
      /\ IF present
         THEN /\ record.score = TableScore(record.name, input_lines[i])
              /\ record.word_count = input_lines[i].words
         ELSE /\ record.score = 0
              /\ record.observation = "Section missing"
              /\ record.word_count = 0

\* C15 as the specification states it: one record per section; a section is
\* present iff its content has more than 10 characters that are not
\* whitespace; an absent section has score 0, observation 'Section missing'
\* and word count 0, a present one the score of the table.
C15_PresentByNonWhitespaceCount ==
  section_analysis # None =>
    /\ OneRecordPerSection
    /\ \A i \in 1..Len(input_lines) : RecordAsTable(i, input_lines[i].nonspace > 10)

\* C15: one record per section; a section is present iff its trimmed content
\* is longer than 10 characters, the whitespace inside it counted; an absent
\* section has score 0, observation 'Section missing' and word count 0, a
\* present one the score of the table; 10 comma-separated skills score 90.
C15_PresentByTrimmedLength ==
  section_analysis # None =>
    /\ OneRecordPerSection
    /\ \A i \in 1..Len(input_lines) : RecordAsTable(i, input_lines[i].trimmed > 10)
    /\ \A i \in 1..Len(input_lines) :
          (Get(sections)[i].name = "skills" /\ input_lines[i].separators = 9
             /\ input_lines[i].words = 10) => Get(section_analysis)[i].score = 90

\* A skills section of 10 comma-separated items scored 90, next to a section
\* of 11 characters of which 6 are not whitespace, which is present.
C15_Witness ==
  /\ section_analysis # None
  /\ \E i, j \in 1..Len(input_lines) :
        /\ Get(sections)[i].name = "skills"
        /\ input_lines[i].separators = 9
        /\ Get(section_analysis)[i].score = 90
        /\ input_lines[j].trimmed = 11 /\ input_lines[j].nonspace = 6
        /\ Get(section_analysis)[j].present

\* Both sides of the 100-word threshold of experience.
C15_WitnessExperience ==
  /\ section_analysis # None
  /\ Len(input_lines) = 2
  /\ Get(sections)[1].name = "experience" /\ input_lines[1].words = 100
  /\ Get(section_analysis)[1].score = 90
  /\ Get(sections)[2].name = "internships" /\ input_lines[2].words = 99
  /\ Get(section_analysis)[2].score = 70

(***************************************************************************)
(* Claims checked under SpecSummary.                                       *)
(***************************************************************************)
\* A critical section that the analysis holds as absent.
AbsentCritical(name) ==
  name \in Keys(Get(section_analysis)) /\ ~At(Get(section_analysis), name).present

\* The critical recommendation generated first, as a sequence of at most one
\* message: a missing skills, education or experience section, then a skill
\* count below 5, then missing job skills.
EarliestCriticalMessage ==
  IF AbsentCritical("skills")
  THEN <<[text |-> "Add a {section} section - this is essential for ATS parsing",
          title |-> "Skills", skills |-> <<>>]>>
  ELSE IF AbsentCritical("education")
  THEN <<[text |-> "Add a {section} section - this is essential for ATS parsing",
          title |-> "Education", skills |-> <<>>]>>
  ELSE IF AbsentCritical("experience")
  THEN <<[text |-> "Add a {section} section - this is essential for ATS parsing",
          title |-> "Experience", skills |-> <<>>]>>
  ELSE IF Get(skill_analysis).skill_count < 5
  THEN <<[text |-> "Add more technical skills - aim for at least 8-10 relevant skills",
          title |-> "", skills |-> <<>>]>>
  ELSE IF jd_analysis # None /\ Len(Get(jd_analysis).missing_skills) > 0
  THEN <<[text |-> "Add these job-relevant skills if you have them: ",
          title |-> "", skills |-> Get(jd_analysis).missing_skills]>>
  ELSE <<>>

\* The texts of the summary, in order.
SummaryTexts == [i \in 1..Len(Get(response).summary) |-> Get(response).summary[i].text]

ExpectedSummaryTexts ==
  <<IF Get(ats_score) >= 7500 THEN "Your resume is well-optimized for ATS systems."
    ELSE IF Get(ats_score) >= 6000
    THEN "Your resume is generally ATS-friendly with room for improvement."
    ELSE "Your resume needs significant improvements for ATS compatibility.">>
  \o (IF jd_match_score = None THEN <<>>
      ELSE <<IF Get(jd_match_score) >= 7000
             THEN "It shows a strong match ({score}%) with the job description."
             ELSE IF Get(jd_match_score) >= 5000
             THEN "It has a moderate match ({score}%) with the job description."
             ELSE "It has limited alignment ({score}%) with the job description.">>)
  \o (IF Get(response).strengths = <<>> THEN <<>> ELSE <<"Key strength: {strength}.">>)
  \o (IF EarliestCriticalMessage = <<>> THEN <<>> ELSE <<"Priority action: {message}.">>)

\* C18: the summary holds, in this order, the ATS tier sentence (>= 75, >= 60,
\* else), the job-match sentence with the score iff there is a job-match
\* score, 0 included (>= 70, >= 50, else), 'Key strength' with the first
\* strength iff there is a strength, and 'Priority action' with the message
\* of the first critical recommendation iff there is one, which is the
\* critical recommendation generated first.
C18_SummarySentences ==
  response # None =>
    LET summary == Get(response).summary
        critical == SelectSeq(Get(recommendations), LAMBDA r : r.priority = "critical")
    IN  /\ SummaryTexts = ExpectedSummaryTexts
        /\ \A i \in 1..Len(summary) :
              /\ summary[i].text = "Key strength: {strength}."
                   => summary[i].strength = Get(response).strengths[1]
              /\ summary[i].text = "Priority action: {message}."
                   => /\ summary[i].message = critical[1].message
                      /\ summary[i].message = EarliestCriticalMessage[1]
              /\ (i = 2 /\ jd_match_score # None) => summary[i].score = Get(jd_match_score)
        /\ (critical = <<>>) = (EarliestCriticalMessage = <<>>)

\* All four sentences, with a job-match score of 0 and the priority action
\* taken from the missing education section although job skills are missing.
C18_Witness ==
  /\ response # None
  /\ Len(Get(response).summary) = 4
  /\ jd_match_score = Some(0)
  /\ Get(response).summary[2].text
       = "It has limited alignment ({score}%) with the job description."
  /\ Get(response).summary[3].strength.title = "Skills"
  /\ Get(response).summary[4].message.title = "Education"
  /\ Len(Get(jd_analysis).missing_skills) = 2

\* The tier sentence alone: no job description, no strength, nothing critical.
C18_WitnessTierOnly ==
  /\ response # None
  /\ Len(Get(response).summary) = 1
  /\ Get(ats_score) = 7500
  /\ Get(response).summary[1].text = "Your resume is well-optimized for ATS systems."

(***************************************************************************)
(* Claims checked under Spec.                                              *)
(***************************************************************************)
amazon_web_services ==
  <<"a","m","a","z","o","n"," ","w","e","b"," ","s","e","r","v","i","c","e","s">>

\* The request was analysed and answered.
Answered == pc = "done" /\ response # None /\ Get(response).status = 200

OptionalSections == {"internships", "achievements", "certifications", "contact"}

\* C2 as the specification states it: the `sections` field of every analysis
\* result holds exactly 10 entries, one for each known section name, whether
\* or not the section is present in the resume.
C2_SectionsAlwaysTen ==
  Answered =>
    /\ Len(Get(response).sections) = 10
    /\ Keys(Get(response).sections) = Range(SectionNames)

\* C2: the analysis holds all 10 known sections, and the `sections` field of
\* the result holds one entry for each of the six critical or important
\* sections whether or not it is present, and one for an optional section
\* (internships, achievements, certifications, contact) only when it is
\* present; each entry carries the presence and score of the analysis.
C2_SectionsFieldKeepsPresentOrRequired ==
  Answered =>
    LET field == Get(response).sections
        analysis == Get(section_analysis)
    IN  /\ Keys(analysis) = Range(SectionNames) /\ Len(analysis) = 10
        /\ Keys(field) = {name \in Range(SectionNames) :
                            name \notin OptionalSections \/ At(analysis, name).present}
        /\ Len(field) = Cardinality(Keys(field))
        /\ Len(field) \in 6..10
        /\ \A i \in 1..Len(field) :
              /\ field[i].present = At(analysis, field[i].name).present
              /\ field[i].score = At(analysis, field[i].name).score

\* A resume without any optional section was answered with six entries.
C2_Witness ==
  /\ Answered
  /\ Len(Get(response).sections) = 6
  /\ \A name \in OptionalSections : ~At(Get(section_analysis), name).present

\* A resume with a certifications section was answered with seven entries.
C2_WitnessOptionalPresent ==
  /\ Answered
  /\ Len(Get(response).sections) = 7
  /\ "certifications" \in Keys(Get(response).sections)
  /\ At(Get(section_analysis), "certifications").present

\* C3 as the specification states it: the second run of the program on the
\* same resume text and the same job description text gives the output of the
\* first run, the order of the skills in the lists and in the message included.
C3_SecondRunSameOutput ==
  (pc = "done" /\ previous # None) => response = previous

\* The job description holds the skills python, sql and aws, and of these the
\* resume holds python only.
C5_Scenario ==
  /\ jd_text # None
  /\ SkillsIn(lower(Get(jd_text))) = {python, sql, aws}
  /\ SkillsIn(lower(resume_text)) \cap {python, sql, aws} = {python}

\* The critical/jd_match recommendations of the response.
CriticalJdRecs ==
  SelectSeq(Get(response).recommendations,
            LAMBDA r : r.priority = "critical" /\ r.category = "jd_match")

\* C5 as the specification states it: in the scenario the overlap is 33.33,
\* the missing skills are {sql, aws}, and one critical/jd_match recommendation
\* names 'sql' and 'aws'.
C5_MissingSqlAndAws ==
  (Answered /\ C5_Scenario) =>
    /\ Get(Get(response).jd_analysis).overlap_percentage = 3333
    /\ Range(Get(Get(response).jd_analysis).missing_skills) = {sql, aws}
    /\ Len(CriticalJdRecs) = 1
    /\ Range(CriticalJdRecs[1].message.skills) = {sql, aws}

\* C5: in the scenario the overlap is 33.33, the missing skills are sql and
\* the expanded name 'amazon web services', in either order, and one
\* critical/jd_match recommendation names these two skills in the order of
\* the missing-skills list.
C5_MissingSqlAndAmazonWebServices ==
  (Answered /\ C5_Scenario) =>
    LET missing == Get(Get(response).jd_analysis).missing_skills
    IN  /\ Get(Get(response).jd_analysis).overlap_percentage = 3333
        /\ Len(missing) = 2
        /\ Range(missing) = {sql, amazon_web_services}
        /\ Len(CriticalJdRecs) = 1
        /\ CriticalJdRecs[1].message.skills = missing
        /\ CriticalJdRecs[1].message.text
             = "Add these job-relevant skills if you have them: "

\* The scenario was analysed and answered with a job-description analysis.
C5_Witness ==
  /\ Answered
  /\ C5_Scenario
  /\ Get(response).jd_analysis # None
  /\ Get(Get(response).jd_analysis).matching_skills = <<python>>

\* The strengths of the response whose text is the given one.
StrengthsOf(text) == SelectSeq(Get(response).strengths, LAMBDA s : s.text = text)

\* The recommendations about one section: the missing-section ones name it
\* in their title, the section-quality ones in their text.
RecsAboutSection(title) ==
  SelectSeq(Get(recommendations), LAMBDA r :
     \/ r.category = "missing_section" /\ r.message.title = title
     \/ /\ r.category = "section_quality"
        /\ \/ /\ title = "Experience"
              /\ r.message.text = "Expand your Experience section with more detailed accomplishments and metrics"
           \/ /\ title = "Skills"
              /\ r.message.text = "List more specific skills and technologies in your Skills section")

\* C23: nothing is reported both as a strength and as a recommendation: a
\* section with a 'Strong <Section> section' strength has no missing-section
\* and no section-quality recommendation; the skills-coverage strength (10
\* skills or more) comes with no 'skills' recommendation, the action-verb
\* strength (8 verbs or more) with no 'action_verbs' recommendation, and the
\* 'Highly ATS-compatible format' strength (score 90 or more) with no
\* 'ats_compatibility' recommendation.
C23_NoStrengthWithRecommendation ==
  response # None =>
    LET strong == StrengthsOf("Strong {section} section")
        skills == StrengthsOf("Comprehensive skills coverage ({count} skills identified)")
        verbs == StrengthsOf("Excellent use of action verbs ({count} strong verbs)")
        format == StrengthsOf("Highly ATS-compatible format")
    IN  /\ \A i \in 1..Len(strong) : RecsAboutSection(strong[i].title) = <<>>
        /\ (skills # <<>>) = (Get(skill_analysis).skill_count >= 10)
        /\ skills # <<>> => RecsOf("skills") = <<>>
        /\ (verbs # <<>>) = (Get(verb_analysis).verb_count >= 8)
        /\ verbs # <<>> => RecsOf("action_verbs") = <<>>
        /\ (format # <<>>) = (Get(ats_compatibility).score >= 90)
        /\ format # <<>> => RecsOf("ats_compatibility") = <<>>

\* A format scored 90 with one issue found, 10 skills, 8 verbs and a strong
\* skills section beside a weak experience section: four strengths, and the
\* recommendations are about the experience section only.
C23_Witness ==
  /\ response # None
  /\ Get(ats_compatibility).score = 90
  /\ Get(ats_compatibility).issues # <<>>
  /\ Len(Get(response).strengths) = 4
  /\ StrengthsOf("Strong {section} section")[1].title = "Skills"
  /\ Len(RecsAboutSection("Experience")) = 1
  /\ Len(Get(recommendations)) = 1

\* An incompatible format: its issues are recommended and it is no strength.
C23_WitnessIncompatible ==
  /\ response # None
  /\ ~Get(ats_compatibility).is_compatible
  /\ Len(RecsOf("ats_compatibility")) = 3
  /\ StrengthsOf("Highly ATS-compatible format") = <<>>


(***************************************************************************)
(* SpecNormalize: normalize_skills called on a text of at most MaxWords    *)
(* words separated by one space, then the skill matcher called on the      *)
(* result, as analyze_resume does.  Each word is recorded with what it is: *)
(* whether it is an abbreviation of the table, the text the table gives    *)
(* for it (the word in lower case when it is no abbreviation), the         *)
(* vocabulary entry of that text (empty when the vocabulary has none),     *)
(* whether it ends in ".js", and its text once "js" alone is rewritten.    *)
(***************************************************************************)
MaxWords == 2

NormalizeWords ==
  {
    [text |-> <<"M","L">>,  \* ML
     abbreviation |-> TRUE, full_form |-> <<"m","a","c","h","i","n","e"," ","l","e","a","r","n","i","n","g">>,
     canonical |-> <<"m","a","c","h","i","n","e"," ","l","e","a","r","n","i","n","g">>, dotted_js |-> FALSE, after_js |-> <<>>],
    [text |-> <<"k","8","s">>,  \* k8s
     abbreviation |-> TRUE, full_form |-> <<"k","u","b","e","r","n","e","t","e","s">>,
     canonical |-> <<"k","u","b","e","r","n","e","t","e","s">>, dotted_js |-> FALSE, after_js |-> <<>>],
    [text |-> <<"A","W","S">>,  \* AWS
     abbreviation |-> TRUE, full_form |-> <<"a","m","a","z","o","n"," ","w","e","b"," ","s","e","r","v","i","c","e","s">>,
     canonical |-> <<"a","m","a","z","o","n"," ","w","e","b"," ","s","e","r","v","i","c","e","s">>, dotted_js |-> FALSE, after_js |-> <<>>],
    [text |-> <<"j","s">>,  \* js
     abbreviation |-> TRUE, full_form |-> <<"j","a","v","a","s","c","r","i","p","t">>,
     canonical |-> <<"j","a","v","a","s","c","r","i","p","t">>, dotted_js |-> FALSE, after_js |-> <<>>],
    [text |-> <<"d","b">>,  \* db
     abbreviation |-> TRUE, full_form |-> <<"d","a","t","a","b","a","s","e">>,
     canonical |-> <<>>, dotted_js |-> FALSE, after_js |-> <<>>],
    [text |-> <<"C","+","+">>,  \* C++
     abbreviation |-> TRUE, full_form |-> <<"c","p","p">>,
     canonical |-> <<"c","p","p">>, dotted_js |-> FALSE, after_js |-> <<>>],
    [text |-> <<"c","#">>,  \* c#
     abbreviation |-> TRUE, full_form |-> <<"c","s","h","a","r","p">>,
     canonical |-> <<"c","s","h","a","r","p">>, dotted_js |-> FALSE, after_js |-> <<>>],
    [text |-> <<"N","o","d","e",".","j","s">>,  \* Node.js
     abbreviation |-> TRUE, full_form |-> <<"n","o","d","e","j","s">>,
     canonical |-> <<"n","o","d","e","j","s">>, dotted_js |-> TRUE, after_js |-> <<"n","o","d","e",".","j","a","v","a","s","c","r","i","p","t">>],
    [text |-> <<"R","e","a","c","t",".","j","s">>,  \* React.js
     abbreviation |-> TRUE, full_form |-> <<"r","e","a","c","t">>,
     canonical |-> <<"r","e","a","c","t">>, dotted_js |-> TRUE, after_js |-> <<"r","e","a","c","t",".","j","a","v","a","s","c","r","i","p","t">>],
    [text |-> <<"v","u","e",".","j","s">>,  \* vue.js
     abbreviation |-> TRUE, full_form |-> <<"v","u","e">>,
     canonical |-> <<"v","u","e">>, dotted_js |-> TRUE, after_js |-> <<"v","u","e",".","j","a","v","a","s","c","r","i","p","t">>],
    [text |-> <<"a","n","g","u","l","a","r",".","j","s">>,  \* angular.js
     abbreviation |-> TRUE, full_form |-> <<"a","n","g","u","l","a","r">>,
     canonical |-> <<"a","n","g","u","l","a","r">>, dotted_js |-> TRUE, after_js |-> <<"a","n","g","u","l","a","r",".","j","a","v","a","s","c","r","i","p","t">>],
    [text |-> <<"h","t","m","l">>,  \* html
     abbreviation |-> FALSE, full_form |-> <<"h","t","m","l">>,
     canonical |-> <<"h","t","m","l">>, dotted_js |-> FALSE, after_js |-> <<>>],
    [text |-> <<"U","s","e","d">>,  \* Used
     abbreviation |-> FALSE, full_form |-> <<"u","s","e","d">>,
     canonical |-> <<>>, dotted_js |-> FALSE, after_js |-> <<>>]
  }

InitNormalize ==
  /\ pc = "normalize"
  /\ input_lines \in SeqsUpTo(NormalizeWords, MaxWords)
  /\ resume_text = Join([i \in 1..Len(input_lines) |-> input_lines[i].text], <<" ">>)
  /\ jd_text = None
  /\ similarity = 0
  /\ sections = None
  /\ resume_normalized = None
  /\ section_analysis = None
  /\ skill_analysis = None
  /\ verb_analysis = None
  /\ ats_compatibility = None
  /\ ats_score = None
  /\ skill_overlap = None
  /\ jd_match_score = None
  /\ jd_analysis = None
  /\ recommendations = None
  /\ response = None
  /\ previous = None

\* app.py:106
CallNormalizeSkills ==
  /\ pc = "normalize"
  /\ resume_normalized' = Some(normalize_skills(resume_text))
  /\ pc' = "density"
  /\ UNCHANGED <<input_lines, resume_text, jd_text, similarity, sections, section_analysis,
                 skill_analysis, verb_analysis, ats_compatibility, ats_score, skill_overlap,
                 jd_match_score, jd_analysis, recommendations, response, previous>>

\* app.py:112
CallSkillDensityNormalized ==
  /\ pc = "density"
  /\ skill_analysis' = Some(calculate_skill_density(Get(resume_normalized)))
  /\ pc' = "done"
  /\ UNCHANGED <<input_lines, resume_text, jd_text, similarity, sections, resume_normalized,
                 section_analysis, verb_analysis, ats_compatibility, ats_score, skill_overlap,
                 jd_match_score, jd_analysis, recommendations, response, previous>>

NextNormalize == CallNormalizeSkills \/ CallSkillDensityNormalized

SpecNormalize == InitNormalize /\ [][NextNormalize]_vars

(***************************************************************************)
(* Claims checked under SpecNormalize.                                     *)
(***************************************************************************)
Normalized == pc \in {"density", "done"} /\ resume_normalized # None

Matched == pc = "done" /\ skill_analysis # None

FullForms == [i \in 1..Len(input_lines) |-> input_lines[i].full_form]

\* C19: every abbreviation of the table that stands as a whole word between
\* spaces or the ends of the text, in any letter case, is rewritten into
\* its full form, and the skill matcher then finds the vocabulary entry of
\* the full form in the rewritten text.
C19_EveryAbbreviationExpanded ==
  /\ Normalized => Get(resume_normalized) = Join(FullForms, <<" ">>)
  /\ Matched =>
        \A i \in 1..Len(input_lines) :
           input_lines[i].abbreviation /\ input_lines[i].canonical # <<>>
             => input_lines[i].canonical \in Range(Get(skill_analysis).found_skills)

\* The words of the text as they stand once the entry "js" is applied:
\* a word ending in ".js" keeps its stem and ends in ".javascript".
AfterJs ==
  [i \in 1..Len(input_lines) |->
     IF input_lines[i].dotted_js THEN input_lines[i].after_js ELSE input_lines[i].full_form]

DottedJsOrPlain ==
  \A i \in 1..Len(input_lines) : input_lines[i].dotted_js \/ ~input_lines[i].abbreviation

HasDottedJs == \E i \in 1..Len(input_lines) : input_lines[i].dotted_js

\* C20: the entry "js" is applied before the entries "react.js", "node.js",
\* "vue.js" and "angular.js", which then find nothing to rewrite: a word
\* ending in ".js" ends in ".javascript" afterwards, the skill matcher
\* reports "javascript" for it, and for the text "Node.js" it reports
\* "javascript" alone and not "nodejs".
C20_JsAppliedBeforeDottedJs ==
  /\ Normalized /\ DottedJsOrPlain => Get(resume_normalized) = Join(AfterJs, <<" ">>)
  /\ Matched /\ HasDottedJs => javascript \in Range(Get(skill_analysis).found_skills)
  /\ Matched /\ resume_text = <<"N","o","d","e",".","j","s">>
        => Get(skill_analysis).found_skills = <<javascript>>

C20_Witness ==
  /\ Matched
  /\ resume_text = <<"N","o","d","e",".","j","s">>
  /\ Get(resume_normalized) = <<"n","o","d","e",".","j","a","v","a","s","c","r","i","p","t">>

C20_WitnessTwoWords ==
  /\ Matched
  /\ Len(input_lines) = 2
  /\ input_lines[1].dotted_js
  /\ ~input_lines[2].abbreviation
  /\ javascript \in Range(Get(skill_analysis).found_skills)

(***************************************************************************)
(* app.py: analyze_resume from the request on.  request.files is the list  *)
(* of uploaded files in input_lines; each file is recorded with its form   *)
(* field, its name (with whether the extension is an allowed one and the   *)
(* format the extension stands for), whether its bytes are a document the  *)
(* parsing library can open, and the text it holds (with the length of the *)
(* text once trimmed and the number of vocabulary skills it names).        *)
(***************************************************************************)
ALLOWED_EXTENSIONS == {<<"p","d","f">>, <<"d","o","c","x">>, <<"d","o","c">>, <<"t","x","t">>}

\* filename.rsplit('.', 1)[1].lower() if '.' in filename else ''
get_file_extension(filename) ==
  LET dots == {i \in 1..Len(filename) : filename[i] = "."}
  IN  IF dots = {} THEN <<>>
      ELSE LET last == CHOOSE i \in dots : \A j \in dots : j <= i
           IN  lower(SubSeq(filename, last + 1, Len(filename)))

\* The extension test passed for every name.
AllowedFileAnyName(filename) == TRUE

allowed_file(filename) ==
  /\ "." \in Range(filename)
  /\ get_file_extension(filename) \in ALLOWED_EXTENSIONS

\* extract_text: the text of the file, None where the call raises.
extract_text(file, file_type) ==
  IF file_type \in {<<"p","d","f">>, <<"d","o","c","x">>, <<"d","o","c">>}
  THEN IF file.readable THEN Some(file.content.text) ELSE None
  ELSE None

\* request.files.get(field)
FileOf(field) ==
  LET found == {i \in 1..Len(input_lines) : input_lines[i].field = field}
  IN  IF found = {} THEN None ELSE Some(input_lines[CHOOSE i \in found : TRUE])

has_jd == FileOf("job_description") # None /\ Get(FileOf("job_description")).name.filename # <<>>

UploadedNames ==
  {
    [filename |-> <<>>,  \* ''
     allowed |-> FALSE, format |-> "none"],
    [filename |-> <<"c","v",".","p","d","f">>,  \* 'cv.pdf'
     allowed |-> TRUE, format |-> "pdf"],
    [filename |-> <<"C","V",".","D","O","C","X">>,  \* 'CV.DOCX'
     allowed |-> TRUE, format |-> "docx"],
    [filename |-> <<"n","o","t","e","s",".","t","x","t">>,  \* 'notes.txt'
     allowed |-> TRUE, format |-> "plain"],
    [filename |-> <<"c","v",".","e","x","e">>,  \* 'cv.exe'
     allowed |-> FALSE, format |-> "none"],
    [filename |-> <<"r","e","s","u","m","e">>,  \* 'resume'
     allowed |-> FALSE, format |-> "none"]
  }

UploadedTexts ==
  {
    [text |-> <<>>,  \* ''
     trimmed |-> 0, skills |-> 0],
    [text |-> <<" "," ","L","e","d"," ","t","h","e"," ","d","a","t","a"," ","t","e","a","m"," ","a","n","d"," ","w","r","o","t","e"," ","S","Q","L"," ","r","e","p","o","r","t","s"," ","e","a","c","h"," ","w","e","e","k"," ","\n">>,  \* '  Led the data team and wrote SQL reports each week \n'
     trimmed |-> 49, skills |-> 1],
    [text |-> <<"B","u","i","l","t"," ","r","e","p","o","r","t","i","n","g"," ","t","o","o","l","s"," ","i","n"," ","P","y","t","h","o","n"," ","f","o","r"," ","a"," ","f","i","n","a","n","c","e"," ","t","e","a","m">>,  \* 'Built reporting tools in Python for a finance team'
     trimmed |-> 50, skills |-> 1],
    [text |-> <<"S","K","I","L","L","S","\n","P","y","t","h","o","n",","," ","J","a","v","a",","," ","S","Q","L",","," ","A","W","S",","," ","D","o","c","k","e","r",","," ","R","e","a","c","t",","," ","N","o","d","e",".","j","s",","," ","M","o","n","g","o","D","B",","," ","G","i","t",","," ","L","i","n","u","x","\n">>,  \* 'SKILLS\nPython, Java, SQL, AWS, Docker, React, Node.js, MongoDB, Git, Linux\n'
     trimmed |-> 74, skills |-> 8],
    [text |-> <<"P","y","t","h","o","n",","," ","S","Q","L"," ","a","n","d"," ","A","W","S">>,  \* 'Python, SQL and AWS'
     trimmed |-> 19, skills |-> 3],
    [text |-> <<"W","e"," ","n","e","e","d"," ","a"," ","k","i","n","d"," ","p","e","r","s","o","n">>,  \* 'We need a kind person'
     trimmed |-> 21, skills |-> 0]
  }

InitRequest ==
  /\ pc = "request"
  \* a resume file holds the empty text or one of the three long texts, a
  \* job description file the empty text or one of the two short texts
  /\ \E resumes \in SeqsUpTo({[field |-> "resume", name |-> n, readable |-> r, content |-> t] :
                                n \in UploadedNames, r \in BOOLEAN,
                                t \in {u \in UploadedTexts : u.trimmed \notin {19, 21}}}, 1),
        jds \in SeqsUpTo({[field |-> "job_description", name |-> n, readable |-> r, content |-> t] :
                            n \in UploadedNames, r \in BOOLEAN,
                            t \in {u \in UploadedTexts : u.trimmed < 49}}, 1) :
        /\ input_lines = resumes \o jds
        /\ similarity \in IF jds # <<>> /\ jds[1].content.text # <<>> THEN {0, 4567, 10000}
                          ELSE {0}
  /\ resume_text = <<>>
  /\ jd_text = None
  /\ sections = None
  /\ resume_normalized = None
  /\ section_analysis = None
  /\ skill_analysis = None
  /\ verb_analysis = None
  /\ ats_compatibility = None
  /\ ats_score = None
  /\ skill_overlap = None
  /\ jd_match_score = None
  /\ jd_analysis = None
  /\ recommendations = None
  /\ response = None
  /\ previous = None

\* app.py:55-73
ValidateFiles ==
  /\ pc = "request"
  /\ IF FileOf("resume") = None
     THEN /\ response' = Some([status |-> 400, error |-> "Resume file is required"])
          /\ pc' = "done"
     ELSE IF Get(FileOf("resume")).name.filename = <<>>
     THEN /\ response' = Some([status |-> 400, error |-> "No resume file selected"])
          /\ pc' = "done"
     ELSE IF ~allowed_file(Get(FileOf("resume")).name.filename)
     THEN /\ response' = Some([status |-> 400,
                               error |-> "Invalid resume file type. Allowed: PDF, DOCX"])
          /\ pc' = "done"
     ELSE IF has_jd /\ ~allowed_file(Get(FileOf("job_description")).name.filename)
     THEN /\ response' = Some([status |-> 400,
                               error |-> "Invalid job description file type. Allowed: PDF, DOCX, TXT"])
          /\ pc' = "done"
     ELSE /\ pc' = "read_resume"
          /\ UNCHANGED response
  /\ UNCHANGED <<input_lines, resume_text, jd_text, similarity, sections, resume_normalized,
                 section_analysis, skill_analysis, verb_analysis, ats_compatibility,
                 ats_score, skill_overlap, jd_match_score, jd_analysis, recommendations, previous>>

\* app.py:75-85; the error texts stand without the text of the exception.
ExtractResumeText ==
  /\ pc = "read_resume"
  /\ LET resume_file == Get(FileOf("resume"))
         extracted == extract_text(resume_file, get_file_extension(resume_file.name.filename))
     IN  IF extracted = None
         THEN /\ response' = Some([status |-> 400, error |-> "Failed to extract resume text"])
              /\ pc' = "done"
              /\ UNCHANGED resume_text
         ELSE /\ resume_text' = Get(extracted)
              /\ IF Len(Get(extracted)) = 0 \/ Len(strip(Get(extracted))) < 50
                 THEN /\ response' = Some([status |-> 400,
                                           error |-> "Resume appears to be empty or too short"])
                      /\ pc' = "done"
                 ELSE /\ pc' = "read_jd"
                      /\ UNCHANGED response
  /\ UNCHANGED <<input_lines, jd_text, similarity, sections, resume_normalized,
                 section_analysis, skill_analysis, verb_analysis, ats_compatibility,
                 ats_score, skill_overlap, jd_match_score, jd_analysis, recommendations,
                 previous>>

\* app.py:87-99; the bytes of a txt file are decoded with errors='ignore'.
ExtractJobDescriptionText ==
  /\ pc = "read_jd"
  /\ IF has_jd
     THEN LET jd_file == Get(FileOf("job_description"))
              jd_ext == get_file_extension(jd_file.name.filename)
              extracted == IF jd_ext = <<"t","x","t">> THEN Some(jd_file.content.text)
                           ELSE extract_text(jd_file, jd_ext)
          IN  IF extracted = None
              THEN /\ response' = Some([status |-> 400,
                                        error |-> "Failed to extract job description text"])
                   /\ pc' = "done"
                   /\ UNCHANGED jd_text
              ELSE /\ jd_text' = extracted
                   /\ pc' = "detect"
                   /\ UNCHANGED response
     ELSE /\ jd_text' = None
          /\ pc' = "detect"
          /\ UNCHANGED response
  /\ UNCHANGED <<input_lines, resume_text, similarity, sections, resume_normalized,
                 section_analysis, skill_analysis, verb_analysis, ats_compatibility,
                 ats_score, skill_overlap, jd_match_score, jd_analysis, recommendations,
                 previous>>

\* app.py:210-214: a step of the analysis raises and the handler answers 500.
RaiseException ==
  /\ pc \in {"detect", "analyze", "jd", "feedback"}
  /\ response' = Some([status |-> 500, error |-> "Internal server error"])
  /\ pc' = "done"
  /\ UNCHANGED <<input_lines, resume_text, jd_text, similarity, sections, resume_normalized,
                 section_analysis, skill_analysis, verb_analysis, ats_compatibility,
                 ats_score, skill_overlap, jd_match_score, jd_analysis, recommendations, previous>>

NextRequest ==
  \/ ValidateFiles
  \/ ExtractResumeText
  \/ ExtractJobDescriptionText
  \/ DetectSections
  \/ AnalyzeText
  \/ AnalyzeJobDescription
  \/ SkipJobDescription
  \/ Respond
  \/ RaiseException

SpecRequest == InitRequest /\ [][NextRequest]_vars

(***************************************************************************)
(* Claims checked under SpecRequest.                                       *)
(***************************************************************************)
Uploaded(field) == {i \in 1..Len(input_lines) : input_lines[i].field = field}

ResumeUpload == input_lines[CHOOSE i \in Uploaded("resume") : TRUE]

JdUpload == input_lines[CHOOSE i \in Uploaded("job_description") : TRUE]

\* A job description file is supplied: the form field holds a named file.
JdSupplied == Uploaded("job_description") # {} /\ JdUpload.name.filename # <<>>

\* The file yields its text in the given role: a PDF or DOCX document that
\* the parsing library can open, or a plain text file as job description.
Extracts(upload) ==
  \/ upload.name.format \in {"pdf", "docx"} /\ upload.readable
  \/ upload.name.format = "plain" /\ upload.field = "job_description"

\* The number of the first gate the request fails, 0 when it passes all.
FirstFailingGate ==
  IF Uploaded("resume") = {} THEN 1
  ELSE IF ResumeUpload.name.filename = <<>> THEN 2
  ELSE IF ~ResumeUpload.name.allowed THEN 3
  ELSE IF JdSupplied /\ ~JdUpload.name.allowed THEN 4
  ELSE IF ~Extracts(ResumeUpload) THEN 5
  ELSE IF ResumeUpload.content.trimmed < 50 THEN 6
  ELSE IF JdSupplied /\ ~Extracts(JdUpload) THEN 7
  ELSE 0

GateErrors ==
  <<"Resume file is required",
    "No resume file selected",
    "Invalid resume file type. Allowed: PDF, DOCX",
    "Invalid job description file type. Allowed: PDF, DOCX, TXT",
    "Failed to extract resume text",
    "Resume appears to be empty or too short",
    "Failed to extract job description text">>

Succeeded == pc = "done" /\ response # None /\ Get(response).status = 200

JobMatchSentences ==
  {"It shows a strong match ({score}%) with the job description.",
   "It has a moderate match ({score}%) with the job description.",
   "It has limited alignment ({score}%) with the job description."}

\* C21: in a successful response the job-match score, the job-description
\* analysis, the jd_interpretation and jd_level labels and the job-match
\* sentence of the summary are all present when a job description file was
\* supplied and its text is not empty, and all absent otherwise; without
\* them there is no jd_match recommendation either.  A request that passes
\* every gate with an empty job description text is answered 200 unless a
\* step of the analysis raises.
C21_JdOutputsTogether ==
  /\ Succeeded =>
       LET r == Get(response)
           analysed == JdSupplied /\ JdUpload.content.text # <<>>
       IN  /\ (r.jd_match_score # None) = analysed
           /\ (r.jd_analysis # None) = analysed
           /\ (r.interpretations.jd # None) = analysed
           /\ (\E i \in 1..Len(r.summary) : r.summary[i].text \in JobMatchSentences) = analysed
           /\ ~analysed => \A i \in 1..Len(r.recommendations) :
                              r.recommendations[i].category # "jd_match"
  /\ (pc = "done" /\ FirstFailingGate = 0 /\ Get(response).status # 500)
       => Get(response).status = 200

\* A readable PDF job description without text: answered 200 with none of
\* the job-description outputs.
C21_Witness ==
  /\ Succeeded
  /\ JdSupplied
  /\ JdUpload.name.format = "pdf"
  /\ JdUpload.content.text = <<>>
  /\ jd_text = Some(<<>>)
  /\ Get(response).jd_match_score = None
  /\ Len(Get(response).summary) >= 1

\* A job description with text: all the outputs are there.
C21_WitnessAnalysed ==
  /\ Succeeded
  /\ Get(response).jd_match_score # None
  /\ Get(Get(response).interpretations.jd).jd_level = "poor"
  /\ Get(Get(response).jd_analysis).overlap_percentage = 3333

\* C22: no step of the analysis runs unless the request passes every gate:
\* resume file present, its filename not empty, its extension allowed, the
\* extension of a supplied job description allowed, the resume text
\* extracted, its trimmed length at least 50, the job description text
\* extracted.  A request failing a gate is answered 400 with the error of
\* the first gate it fails and nothing else; a request passing them is
\* answered 200, or 500 with an error and nothing else when a step raises.
C22_GatesBeforeAnalysis ==
  /\ FirstFailingGate # 0 =>
       /\ sections = None /\ resume_normalized = None /\ section_analysis = None
       /\ skill_analysis = None /\ verb_analysis = None /\ ats_compatibility = None
       /\ ats_score = None /\ skill_overlap = None /\ jd_match_score = None
       /\ jd_analysis = None /\ recommendations = None
       /\ pc \notin {"detect", "analyze", "jd", "feedback"}
  /\ pc = "done" =>
       /\ response # None
       /\ IF FirstFailingGate # 0
          THEN response = Some([status |-> 400, error |-> GateErrors[FirstFailingGate]])
          ELSE \/ Get(response).status = 200
               \/ /\ Get(response).status = 500
                  /\ DOMAIN Get(response) = {"status", "error"}
  /\ pc # "done" => response = None

\* A readable resume of 49 characters once trimmed, sent with a job
\* description file that cannot be opened: the resume is refused as too
\* short, the sixth gate, before the job description is looked at.
C22_Witness ==
  /\ pc = "done"
  /\ FirstFailingGate = 6
  /\ ResumeUpload.content.trimmed = 49
  /\ Len(ResumeUpload.content.text) >= 50
  /\ JdSupplied
  /\ ~Extracts(JdUpload)
  /\ Get(response).status = 400

\* A step raises after the skills and the verbs have been analysed.
C22_WitnessRaised ==
  /\ pc = "done"
  /\ Get(response).status = 500
  /\ skill_analysis # None
  /\ recommendations = None

\* C24: when the job description analysed names no recognized skill, the
\* overlap is 0 and no skill is matching or missing; the recommendations
\* hold the important/jd_match one and no critical/jd_match one; and the
\* job-match score is the nearest hundredth of 0.60 times the similarity,
\* so 60 at most.
C24_NoSkillInJobDescription ==
  (skill_overlap # None /\ JdUpload.content.skills = 0) =>
     /\ Get(skill_overlap).overlap_percentage = 0
     /\ Get(skill_overlap).missing_skills = <<>>
     /\ Get(skill_overlap).matching_skills = <<>>
     /\ Get(jd_analysis).overlap_percentage = 0
     /\ Get(jd_analysis).missing_skills = <<>>
     /\ 2 * Abs(Get(jd_match_score) * 100 - 60 * similarity) <= 100
     /\ Get(jd_match_score) <= 6000
     /\ recommendations # None =>
          /\ Len(RecsOfPriority("jd_match", "important")) = 1
          /\ RecsOfPriority("jd_match", "critical") = <<>>
          /\ Len(RecsOf("jd_match")) = 1

\* A similarity of 100 with a job description that names no skill: the
\* job-match score is 60.
C24_Witness ==
  /\ Succeeded
  /\ JdSupplied
  /\ JdUpload.content.skills = 0
  /\ JdUpload.content.text # <<>>
  /\ similarity = 10000
  /\ Get(response).jd_match_score = Some(6000)
  /\ Len(RecsOfPriority("jd_match", "important")) = 1

====
